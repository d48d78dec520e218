--------------------------- MODULE DevGenieProofs ---------------------------
(***************************************************************************)
(* For any repositories, requests, baselines, locks, edits and kills: what    *)
(* an installer run records is whole, what it writes no lock covers, and a     *)
(* settled request changes nothing; the command that applies findings loses   *)
(* none of them and replaces nothing that is the user's.                      *)
(***************************************************************************)
EXTENDS DevGenie, WellFoundedInduction, TLAPS

-----------------------------------------------------------------------------
\* The installer: what a run is about, and what its targets need.

\* A mutation that is to be carried out: nothing in the plan holds it back.
Due(m) == m.action # "skip" /\ m.reason # "locked"

\* What the plan says of locks and satisfied targets, the outcomes say too, and
\* what is being written no lock covers.
WholeInv ==
  /\ \A i \in DOMAIN plan : plan[i].reason = "locked" => plan[i].action # "skip"
  /\ \A i \in DOMAIN plan : Due(plan[i]) => PathOf(plan[i].target) \notin planLocks
  /\ \A i \in DOMAIN outcomes :
       /\ plan[i].reason = "locked" => outcomes[i] = "blocked"
       /\ plan[i].action = "skip" => outcomes[i] = "skipped"
  /\ pc \in {"writing", "server", "block"} =>
       /\ ~dry /\ Due(Current)
       /\ lockCache # <<>> /\ PathOf(Current.target) \notin lockCache[1]
  /\ pc = "writing" => Current.target \in RegionTarget
  /\ pc \in {"server", "block"} => Current.target \in PlatformTarget
  /\ RecordIsWhole

\* Registering the server would change nothing.
Registered(r) == r.mcp = "malformed" \/ (r.mcp = "object" /\ "katana" \in r.servers)

\* The writer of a target would leave the repository as it is.
NoOp(r, t) ==
  /\ t \in RegionTarget => r.region = Body
  /\ t = "eslint-managed-layer" => r.layered \/ r.entry # "flat"
  /\ t = "claude-settings-hooks" => r.settings = "object" /\ r.hooks # 0
  /\ t = "audit-baseline" => FALSE
  /\ t \in PlatformTarget => r.plugin /\ Registered(r) /\ r.doc = "block"

\* The applier would report a conflict and leave the region as it is.
Refused(r, t, reason) ==
  t \in RegionTarget /\ r.region \notin {NoContent, Body} /\ reason = "conflicting"

\* A run of the request would change nothing on behalf of the target.
Quiet(r, last, t, w) ==
  \/ BaseDecision(r, last, t, w).action = "skip"
  \/ NoOp(r, t)
  \/ PathOf(t) \in r.locks
  \/ Refused(r, t, BaseDecision(r, last, t, w).reason)

\* What the plan says of a target is still so, or its writer has nothing to do.
Stands(r, last, m, w) ==
  \/ NoOp(r, m.target)
  \/ /\ m.action = "skip" => BaseDecision(r, last, m.target, w).action = "skip"
     /\ m.reason = "conflicting" =>
          BaseDecision(r, last, m.target, w).reason = "conflicting"

\* A run that applied something has left its record.
Recorded == lastRun # <<>>

\* A run whose repository nobody edited: its plan still fits, and what it went
\* through with the present locks a further run would leave alone.
RunningInv ==
  pending # NoRequest /\ pc # "idle" =>
    /\ \A i \in DOMAIN plan : plan[i].target \in DOMAIN pending
    /\ \A t \in DOMAIN pending : \E i \in DOMAIN plan : plan[i].target = t
    /\ repo.locks = planLocks
    /\ \A i \in DOMAIN plan :
         /\ plan[i].reason = "locked" => PathOf(plan[i].target) \in planLocks
         /\ Stands(repo, Recorded, plan[i], pending[plan[i].target])
    /\ ~dry /\ lockCache \in {<<>>, <<repo.locks>>} =>
         \A i \in DOMAIN outcomes :
           Quiet(repo, Recorded, plan[i].target, pending[plan[i].target])
    /\ pc \in {"server", "block"} => repo.plugin
    /\ pc = "block" => Registered(repo)

\* Every target of a settled request is left alone by any further run.
SettledInv ==
  settled # NoRequest =>
    /\ \A t \in DOMAIN settled : Quiet(repo, Recorded, t, settled[t])
    /\ pc # "writing"
    /\ pc # "idle" =>
         \A i \in DOMAIN plan :
           Due(plan[i]) => NoOp(repo, plan[i].target)
                           \/ Refused(repo, plan[i].target, plan[i].reason)

\* The seven targets, and their order.
LEMMA Targets ==
  /\ Target = {"agent-config-guardrails", "dev-genie:guardrails", "eslint-managed-layer",
               "claude-settings-hooks", "audit-baseline", "katana:claude-code",
               "daimyo:claude-code"}
  /\ DOMAIN TargetOrder = 1..7
BY DEF Target, TargetOrder, Range

\* Two lists of what is asked for make a list of it, and nothing gets lost.
LEMMA Joined ==
  ASSUME NEW S, NEW s \in Seq(S), NEW t \in Seq(S)
  PROVE  /\ s \o t \in Seq(S)
         /\ \A i \in DOMAIN s : \E j \in DOMAIN (s \o t) : (s \o t)[j] = s[i]
         /\ \A i \in DOMAIN t : \E j \in DOMAIN (s \o t) : (s \o t)[j] = t[i]
<1>1. s \o t \in Seq(S) /\ Len(s \o t) = Len(s) + Len(t)
  OBVIOUS
<1>2. ASSUME NEW i \in DOMAIN s PROVE \E j \in DOMAIN (s \o t) : (s \o t)[j] = s[i]
  BY <1>1
<1>3. ASSUME NEW i \in DOMAIN t PROVE \E j \in DOMAIN (s \o t) : (s \o t)[j] = t[i]
  <2>1. i + Len(s) \in DOMAIN (s \o t) /\ (s \o t)[i + Len(s)] = t[i]
    BY <1>1
  <2> QED
    BY <2>1
<1> QED
  BY <1>1, <1>2, <1>3

\* The order of targets lists each that is asked for.
LEMMA OrderedLists ==
  ASSUME NEW asked \in SUBSET Target
  PROVE  /\ Ordered(asked) \in Seq(asked)
         /\ \A t \in asked : \E i \in DOMAIN Ordered(asked) : Ordered(asked)[i] = t
<1> DEFINE at(i) == IF TargetOrder[i] \in asked THEN <<TargetOrder[i]>> ELSE <<>>
           s2 == at(1) \o at(2)
           s3 == s2 \o at(3)
           s4 == s3 \o at(4)
           s5 == s4 \o at(5)
           s6 == s5 \o at(6)
           s7 == s6 \o at(7)
           In(x, s) == \E j \in DOMAIN s : s[j] = x
<1>1. \A i \in 1..7 : at(i) \in Seq(asked)
  OBVIOUS
<1>2. \A i \in 1..7 : TargetOrder[i] \in asked => In(TargetOrder[i], at(i))
  <2> TAKE i \in 1..7
  <2> HAVE TargetOrder[i] \in asked
  <2>1. at(i) = <<TargetOrder[i]>>
    OBVIOUS
  <2> QED
    BY <2>1
<1> HIDE DEF at
<1>3. ASSUME NEW s \in Seq(asked), NEW t \in Seq(asked), NEW x, In(x, s) \/ In(x, t)
      PROVE  In(x, s \o t)
  <2>1. /\ \A i \in DOMAIN s : \E j \in DOMAIN (s \o t) : (s \o t)[j] = s[i]
        /\ \A i \in DOMAIN t : \E j \in DOMAIN (s \o t) : (s \o t)[j] = t[i]
    BY Joined
  <2> QED
    BY <1>3, <2>1, Zenon
<1>4. s2 \in Seq(asked) /\ s3 \in Seq(asked) /\ s4 \in Seq(asked) /\ s5 \in Seq(asked)
      /\ s6 \in Seq(asked) /\ s7 \in Seq(asked)
  BY <1>1
<1> HIDE DEF In, s2, s3, s4, s5, s6, s7
<1>5. \A x : In(x, at(1)) \/ In(x, at(2)) => In(x, s2)
  BY <1>1, <1>3, <1>4 DEF s2
<1>6. \A x : In(x, s2) \/ In(x, at(3)) => In(x, s3)
  BY <1>1, <1>3, <1>4 DEF s3
<1>7. \A x : In(x, s3) \/ In(x, at(4)) => In(x, s4)
  BY <1>1, <1>3, <1>4 DEF s4
<1>8. \A x : In(x, s4) \/ In(x, at(5)) => In(x, s5)
  BY <1>1, <1>3, <1>4 DEF s5
<1>9. \A x : In(x, s5) \/ In(x, at(6)) => In(x, s6)
  BY <1>1, <1>3, <1>4 DEF s6
<1>10. \A x : In(x, s6) \/ In(x, at(7)) => In(x, s7)
  BY <1>1, <1>3, <1>4 DEF s7
<1>11. \A i \in 1..7 : TargetOrder[i] \in asked => In(TargetOrder[i], s7)
  BY <1>2, <1>5, <1>6, <1>7, <1>8, <1>9, <1>10
<1>12. \A t \in asked : \E i \in 1..7 : TargetOrder[i] = t
  BY Targets DEF Target, Range
<1>13. Ordered(asked) = s7
  BY DEF Ordered, at, s2, s3, s4, s5, s6, s7
<1> QED
  BY <1>4, <1>11, <1>12, <1>13 DEF In

\* What planInstall makes of a request: its targets, each with its decision.
LEMMA PlanOfRequest ==
  ASSUME NEW r \in Repo, NEW last \in BOOLEAN, NEW q \in Request
  PROVE  LET p == PlanInstall(r, last, q)
         IN  /\ p \in Seq(Mutation)
             /\ \A i \in DOMAIN p : /\ p[i].target \in DOMAIN q
                                    /\ p[i] = MutationOf(r, last, p[i].target, q[p[i].target])
             /\ \A t \in DOMAIN q : \E i \in DOMAIN p : p[i].target = t
<1> DEFINE o == Ordered(DOMAIN q)
           p == PlanInstall(r, last, q)
<1>1. DOMAIN q \subseteq Target /\ \A t \in DOMAIN q : q[t] \in Wish
  BY InstallerAssumption
<1>2. o \in Seq(DOMAIN q) /\ \A t \in DOMAIN q : \E i \in DOMAIN o : o[i] = t
  BY <1>1, OrderedLists
<1>3. ASSUME NEW t \in DOMAIN q
      PROVE  MutationOf(r, last, t, q[t]) \in Mutation /\ MutationOf(r, last, t, q[t]).target = t
  <2> DEFINE d == DecisionForTarget(r, last, t, q[t])
             b == BaseDecision(r, last, t, q[t])
             D == [action : {"skip", "update", "create"},
                   reason : {"already_satisfied", "stale", "conflicting", "missing", "locked"}]
  <2>1. b \in D
    BY <1>1 DEF BaseDecision, DecisionFromState, DecisionForStatus, Satisfied, Update, Missing, Wish
  <2>2. d \in D
    <3> HIDE DEF b
    <3>1. d = b \/ d = [b EXCEPT !.reason = "locked"]
      BY DEF DecisionForTarget, b
    <3> HIDE DEF d
    <3> QED
      BY <2>1, <3>1
  <2> HIDE DEF d, b
  <2>3. MutationOf(r, last, t, q[t]) = [target |-> t, action |-> d.action, reason |-> d.reason]
    BY DEF MutationOf, d
  <2> QED
    BY <1>1, <2>2, <2>3 DEF Mutation
<1>4. p = [i \in DOMAIN o |-> MutationOf(r, last, o[i], q[o[i]])]
  BY DEF PlanInstall
<1> HIDE DEF o, p
<1>5. DOMAIN o = 1..Len(o) /\ Len(o) \in Nat /\ \A i \in DOMAIN o : o[i] \in DOMAIN q
  BY <1>2
<1>6. p \in Seq(Mutation) /\ DOMAIN p = DOMAIN o
  BY <1>3, <1>4, <1>5
<1>7. \A i \in DOMAIN p : p[i].target = o[i] /\ p[i] = MutationOf(r, last, o[i], q[o[i]])
  BY <1>3, <1>4, <1>5
<1> QED
  BY <1>2, <1>5, <1>6, <1>7 DEF p
\* A wish as requests state it: only plugins are asked for as plugins.
Wished(t, w) == w \in Wish /\ (w.source = "plugin" => PluginOf(t) # "none")

\* A repository after a write: what was there is there still.
Grown(r, after) ==
  /\ after \in Repo /\ after.locks = r.locks
  /\ after.region = r.region \/ after.region = Body
  /\ after.entry = r.entry /\ after.audit = r.audit
  /\ r.layered => after.layered
  /\ r.settings = "object" => after.settings = "object"
  /\ r.hooks # 0 => after.hooks # 0
  /\ r.plugin => after.plugin
  /\ r.servers \subseteq after.servers
  /\ r.mcp \in {"object", "malformed"} => after.mcp = r.mcp
  /\ r.doc # "none" => after.doc # "none"
  /\ r.doc = "block" => after.doc = "block"

\* Every writer only adds to what is there.
LEMMA WritersGrow ==
  ASSUME NEW r \in Repo
  PROVE  /\ Grown(r, r) /\ Grown(r, WriteAgentBlock(r)) /\ Grown(r, WriteLayered(r))
         /\ Grown(r, MergeHook(r)) /\ Grown(r, WritePlugin(r))
         /\ Grown(r, RegisterServer(r)) /\ Grown(r, InjectBlock(r))
<1> USE RepoAssumption DEF Repo, Grown, RegionState, DocMarkers, EntryKind
<1>1. Grown(r, r)
  OBVIOUS
<1>2. Grown(r, WriteAgentBlock(r))
  BY DEF WriteAgentBlock
<1>3. Grown(r, WriteLayered(r))
  BY DEF WriteLayered
<1>4. Grown(r, MergeHook(r))
  <2> DEFINE n == IF r.hooks = 0 THEN 1 ELSE r.hooks
             a == [r EXCEPT !.settings = "object", !.hooks = n]
  <2>1. n \in 0..MaxHooks /\ (r.hooks # 0 => n # 0)
    OBVIOUS
  <2>2. MergeHook(r) = a
    BY DEF MergeHook
  <2> HIDE DEF n
  <2>3. Grown(r, a)
    BY <2>1
  <2> QED
    BY <2>2, <2>3
<1>5. Grown(r, WritePlugin(r))
  BY DEF WritePlugin
<1>6. Grown(r, RegisterServer(r))
  <2>1. CASE r.mcp = "malformed"
    BY <1>1, <2>1 DEF RegisterServer
  <2>2. CASE r.mcp # "malformed"
    <3> DEFINE s == r.servers \cup {"katana"}
               a == [r EXCEPT !.mcp = "object", !.servers = s]
    <3>1. s \subseteq {"katana", "daimyo"} /\ r.servers \subseteq s
      OBVIOUS
    <3>2. RegisterServer(r) = a
      BY <2>2 DEF RegisterServer
    <3> HIDE DEF s
    <3>3. Grown(r, a)
      BY <2>2, <3>1
    <3> QED
      BY <3>2, <3>3
  <2> QED
    BY <2>1, <2>2
<1>7. Grown(r, InjectBlock(r))
  BY DEF InjectBlock
<1> QED
  BY <1>1, <1>2, <1>3, <1>4, <1>5, <1>6, <1>7

\* So what is there by its signs (detect) is there after a write too.
LEMMA PresentStays ==
  ASSUME NEW r \in Repo, NEW after, Grown(r, after),
         NEW last \in BOOLEAN, NEW last2 \in BOOLEAN, last => last2,
         NEW t \in Target, NEW w, Wished(t, w), TargetPresent(r, last, t, w.source)
  PROVE  TargetPresent(after, last2, t, w.source)
<1>1. r.region # NoContent => after.region # NoContent
  BY RepoAssumption DEF Grown
<1>2. \A p \in {"guardrails", "dev-genie", "audit", "katana", "daimyo"} :
        PluginPresent(r, last, p) => PluginPresent(after, last2, p)
  <2>1. PluginPresent(r, last, "guardrails") => PluginPresent(after, last2, "guardrails")
    BY <1>1 DEF PluginPresent, Grown, Repo
  <2>2. PluginPresent(r, last, "dev-genie") => PluginPresent(after, last2, "dev-genie")
    BY <1>1 DEF PluginPresent, Grown, Repo
  <2>3. PluginPresent(r, last, "audit") => PluginPresent(after, last2, "audit")
    BY DEF PluginPresent, Grown, Repo
  <2>4. PluginPresent(r, last, "katana") => PluginPresent(after, last2, "katana")
    BY DEF PluginPresent, Grown, Repo
  <2>5. PluginPresent(r, last, "daimyo") => PluginPresent(after, last2, "daimyo")
    BY DEF PluginPresent, Grown, Repo
  <2> QED
    BY <2>1, <2>2, <2>3, <2>4, <2>5
<1>3. CASE w.source = "plugin"
  <2>1. PluginOf(t) \in {"guardrails", "dev-genie", "audit", "katana", "daimyo"}
    BY <1>3, Targets DEF Wished, PluginOf
  <2> QED
    BY <1>2, <1>3, <2>1 DEF TargetPresent
<1>4. CASE w.source # "plugin"
  <2>1. CASE t \in RegionTarget
    BY <1>1, <1>4, <2>1 DEF TargetPresent, RegionTarget
  <2>2. CASE t \in {"eslint-managed-layer", "claude-settings-hooks", "audit-baseline"}
    <3>1. CASE t = "eslint-managed-layer"
      BY <1>4, <3>1 DEF TargetPresent, RegionTarget, Grown
    <3>2. CASE t = "claude-settings-hooks"
      BY <1>4, <3>2 DEF TargetPresent, RegionTarget, Grown, Repo
    <3>3. CASE t = "audit-baseline"
      BY <1>4, <3>3 DEF TargetPresent, RegionTarget, Grown
    <3> QED
      BY <2>2, <3>1, <3>2, <3>3
  <2>3. CASE t \in PlatformTarget
    <3>1. CASE t = "katana:claude-code"
      BY <1>2, <1>4, <3>1 DEF TargetPresent, RegionTarget, PlatformTarget, PluginOf
    <3>2. CASE t = "daimyo:claude-code"
      BY <1>2, <1>4, <3>2 DEF TargetPresent, RegionTarget, PlatformTarget, PluginOf
    <3> QED
      BY <2>3, <3>1, <3>2 DEF PlatformTarget
  <2> QED
    BY <2>1, <2>2, <2>3, Targets DEF RegionTarget, PlatformTarget
<1> QED
  BY <1>3, <1>4

\* What a write leaves of the reasons why a target is left alone.
LEMMA DecisionStays ==
  ASSUME NEW r \in Repo, NEW after, Grown(r, after),
         NEW last \in BOOLEAN, NEW last2 \in BOOLEAN, last => last2,
         NEW t \in Target, NEW w, Wished(t, w)
  PROVE  /\ NoOp(r, t) => NoOp(after, t)
         /\ BaseDecision(r, last, t, w).action = "skip" =>
              NoOp(after, t) \/ BaseDecision(after, last2, t, w).action = "skip"
         /\ BaseDecision(r, last, t, w).reason = "conflicting" =>
              NoOp(after, t) \/ BaseDecision(after, last2, t, w).reason = "conflicting"
         /\ \A why : Refused(r, t, why) => NoOp(after, t) \/ Refused(after, t, why)
<1>1. NoOp(r, t) => NoOp(after, t)
  BY DEF NoOp, Registered, Grown
<1>2. CASE t \in RegionTarget /\ after.region # r.region
  BY <1>2, Targets DEF NoOp, Grown, RegionTarget, PlatformTarget
<1>3. CASE t \in RegionTarget => after.region = r.region
  <2>1. \A c : Differs(after, t, c) = Differs(r, t, c)
    BY <1>3 DEF Differs
  <2>2. TargetPresent(r, last, t, w.source) => TargetPresent(after, last2, t, w.source)
    BY PresentStays
  <2>3. /\ DecisionFromState(r, last, t, w).action = "skip" =>
             DecisionFromState(after, last2, t, w).action = "skip"
        /\ DecisionFromState(r, last, t, w).reason = "conflicting" =>
             DecisionFromState(after, last2, t, w).reason = "conflicting"
    BY <2>1, <2>2 DEF DecisionFromState, Satisfied, Update, Missing
  <2> QED
    BY <1>1, <1>3, <2>3 DEF BaseDecision, Refused
<1> QED
  BY <1>1, <1>2, <1>3

\* So what is left alone stays so, and what the plan says stands.
LEMMA QuietStays ==
  ASSUME NEW r \in Repo, NEW after, Grown(r, after),
         NEW last \in BOOLEAN, NEW last2 \in BOOLEAN, last => last2,
         NEW t \in Target, NEW w, Wished(t, w), Quiet(r, last, t, w)
  PROVE  Quiet(after, last2, t, w)
<1>1. after.locks = r.locks
  BY DEF Grown
<1>2. CASE Refused(r, t, BaseDecision(r, last, t, w).reason)
  <2>1. BaseDecision(r, last, t, w).reason = "conflicting"
    BY <1>2 DEF Refused
  <2> QED
    BY <1>2, <2>1, DecisionStays DEF Quiet
<1> QED
  BY <1>1, <1>2, DecisionStays DEF Quiet

\* And what a plan says of the repository still fits it.
LEMMA PlanStands ==
  ASSUME NEW r \in Repo, NEW after, Grown(r, after),
         NEW last \in BOOLEAN, NEW last2 \in BOOLEAN, last => last2,
         NEW m \in Mutation, NEW w, Wished(m.target, w), Stands(r, last, m, w)
  PROVE  Stands(after, last2, m, w)
<1>1. m.target \in Target
  BY DEF Mutation
<1> QED
  BY <1>1, DecisionStays DEF Stands

\* Where a writer has nothing to do, it does nothing.
LEMMA WritersIdle ==
  ASSUME NEW r \in Repo
  PROVE  /\ r.region = Body => WriteAgentBlock(r) = r
         /\ r.layered => WriteLayered(r) = r
         /\ r.settings = "object" /\ r.hooks # 0 => MergeHook(r) = r
         /\ r.plugin => WritePlugin(r) = r
         /\ Registered(r) => RegisterServer(r) = r
         /\ r.doc = "block" => InjectBlock(r) = r
<1> USE DEF Repo
<1>1. r.region = Body => WriteAgentBlock(r) = r
  BY DEF WriteAgentBlock
<1>2. r.layered => WriteLayered(r) = r
  BY DEF WriteLayered
<1>3. r.settings = "object" /\ r.hooks # 0 => MergeHook(r) = r
  BY DEF MergeHook
<1>4. r.plugin => WritePlugin(r) = r
  BY DEF WritePlugin
<1>5. Registered(r) => RegisterServer(r) = r
  <2> SUFFICES ASSUME r.mcp = "object", "katana" \in r.servers PROVE RegisterServer(r) = r
    BY DEF RegisterServer, Registered
  <2>1. RegisterServer(r) = [r EXCEPT !.mcp = "object", !.servers = r.servers \cup {"katana"}]
    BY DEF RegisterServer
  <2>2. r.servers \cup {"katana"} = r.servers
    OBVIOUS
  <2>3. [r EXCEPT !.mcp = r.mcp, !.servers = r.servers] = r
    OBVIOUS
  <2> QED
    BY <2>1, <2>2, <2>3
<1>6. r.doc = "block" => InjectBlock(r) = r
  BY DEF InjectBlock
<1> QED
  BY <1>1, <1>2, <1>3, <1>4, <1>5, <1>6
\* A wish of a request asks what a request may ask.
LEMMA RequestWishes ==
  ASSUME NEW q \in Request
  PROVE  DOMAIN q \subseteq Target /\ \A t \in DOMAIN q : Wished(t, q[t])
BY InstallerAssumption DEF Wished

-----------------------------------------------------------------------------
\* The installer's steps.

\* The inductive invariant of the installer.
InstallerInv == TypeOK /\ WholeInv /\ RunningInv /\ SettledInv

\* The mutation at hand is on its way: it is due, and no lock covers it.
Moves ==
  /\ outcomes' = outcomes /\ pc' \in {"writing", "server", "block"}
  /\ ~dry /\ Due(Current)
  /\ lockCache' # <<>> /\ PathOf(Current.target) \notin lockCache'[1]
  /\ pc' = "writing" => Current.target \in RegionTarget /\ settled = NoRequest
  /\ pc' \in {"server", "block"} => Current.target \in PlatformTarget
  /\ pending # NoRequest /\ pc' \in {"server", "block"} => repo'.plugin
  /\ pending # NoRequest /\ pc' = "block" => Registered(repo')

\* It is done, with this outcome, and would not be done again.
Finishes(s) ==
  /\ s \in Status /\ outcomes' = Append(outcomes, s) /\ pc' = "applying"
  /\ Current.reason = "locked" => s = "blocked"
  /\ Current.action = "skip" => s = "skipped"
  /\ pending # NoRequest /\ ~dry /\ lockCache' \in {<<>>, <<repo'.locks>>} =>
       Quiet(repo', Recorded, Current.target, pending[Current.target])

\* Writes go to the file of the mutation, where neither the plan nor the locks
\* this process has read are against it.
Writes ==
  \A p \in Path : FileAt(repo', p) # FileAt(repo, p) =>
    /\ ~dry /\ Due(Current) /\ p = PathOf(Current.target)
    /\ lockCache # <<>> => p \notin lockCache[1]

\* A run that goes on by one step.
Advance ==
  /\ UNCHANGED <<lastRun, plan, dry, pending, planLocks, settled, runs, edits>>
  /\ pc # "idle" /\ Len(outcomes) < Len(plan)
  /\ wrote' \in BOOLEAN
  /\ Grown(repo, repo') /\ Writes
  /\ settled # NoRequest => repo' = repo
  /\ lockCache' = lockCache \/ (lockCache = <<>> /\ lockCache' = <<repo.locks>>)
  /\ Moves \/ \E s \in Status : Finishes(s)

\* The mutation at hand, and what the invariant says of it.
LEMMA AtHand ==
  ASSUME InstallerInv, Len(outcomes) < Len(plan)
  PROVE  /\ Len(outcomes) + 1 \in DOMAIN plan
         /\ Current = plan[Len(outcomes) + 1]
         /\ Current \in Mutation /\ Current.target \in Target /\ PathOf(Current.target) \in Path
         /\ pending # NoRequest /\ pc # "idle" =>
              /\ pending \in Request /\ Current.target \in DOMAIN pending
              /\ repo.locks = planLocks
              /\ Current.reason = "locked" => PathOf(Current.target) \in planLocks
              /\ Stands(repo, Recorded, Current, pending[Current.target])
         /\ settled # NoRequest /\ pc # "idle" /\ Due(Current) =>
              NoOp(repo, Current.target) \/ Refused(repo, Current.target, Current.reason)
<1>1. Len(outcomes) + 1 \in DOMAIN plan /\ Current = plan[Len(outcomes) + 1]
  BY DEF InstallerInv, TypeOK, Current
<1>2. Current \in Mutation
  BY <1>1 DEF InstallerInv, TypeOK
<1>3. Current.target \in Target /\ PathOf(Current.target) \in Path
  BY <1>2 DEF Mutation, Path
<1>4. pending \in Request \cup {NoRequest}
  BY DEF InstallerInv, TypeOK
<1> QED
  BY <1>1, <1>2, <1>3, <1>4 DEF InstallerInv, RunningInv, SettledInv

\* Reading the locks: the first reading is kept.
LEMMA LocksAreKept ==
  ASSUME TypeOK, LocksRead
  PROVE  /\ lockCache' = lockCache \/ (lockCache = <<>> /\ lockCache' = <<repo.locks>>)
         /\ Current.reason # "locked" => lockCache' # <<>> /\ lockCache'[1] = Locks
         /\ lockCache # <<>> => Locks = lockCache[1]
BY DEF TypeOK, LocksRead, Locks

\* Step by step: each advances the run, and none touches what it may not.
LEMMA SatisfiedAdvances == ASSUME InstallerInv, SkipSatisfied PROVE Advance
<1>1. Working /\ repo' = repo /\ pc # "idle"
  BY DEF SkipSatisfied, Working
<1>2. Grown(repo, repo') /\ Writes
  BY <1>1, WritersGrow DEF InstallerInv, TypeOK, Writes
<1>3. Finishes("skipped")
  <2>1. Current.reason # "locked"
    BY <1>1, AtHand DEF SkipSatisfied, Working, InstallerInv, WholeInv
  <2> QED
    BY <1>1, <2>1, AtHand
    DEF SkipSatisfied, Working, Finish, Finishes, Status, Stands, Quiet
<1> QED
  BY <1>1, <1>2, <1>3 DEF SkipSatisfied, Fixed, Working, Advance, Status, InstallerInv, TypeOK

\* A mutation that is blocked is one a further run would find locked, unless the
\* locks this process keeps are not those of the repository.
LEMMA LockedAdvances == ASSUME InstallerInv, SkipLocked PROVE Advance
<1>1. Working /\ repo' = repo /\ pc # "idle" /\ LocksRead
  BY DEF SkipLocked, Working
<1>2. Grown(repo, repo') /\ Writes
  BY <1>1, WritersGrow DEF InstallerInv, TypeOK, Writes
<1>3. lockCache' = lockCache \/ (lockCache = <<>> /\ lockCache' = <<repo.locks>>)
  BY <1>1, LocksAreKept DEF InstallerInv
<1>4. ASSUME pending # NoRequest, lockCache' \in {<<>>, <<repo'.locks>>}
      PROVE  PathOf(Current.target) \in repo'.locks
  <2>1. CASE Current.reason = "locked"
    BY <1>1, <1>4, <2>1, AtHand DEF Working
  <2>2. CASE Current.reason # "locked"
    <3>1. lockCache' # <<>> /\ lockCache'[1] = Locks
      BY <1>1, <2>2, LocksAreKept DEF InstallerInv
    <3>2. lockCache'[1] = repo'.locks
      BY <1>4, <3>1
    <3>3. PathOf(Current.target) \in Locks
      BY <2>2 DEF SkipLocked, Blocked
    <3> QED
      BY <3>1, <3>2, <3>3
  <2> QED
    BY <2>1, <2>2
<1>5. Finishes("blocked")
  BY <1>4 DEF SkipLocked, Finish, Finishes, Status, Quiet
<1> QED
  BY <1>1, <1>2, <1>3, <1>5 DEF SkipLocked, Fixed, Working, Advance, Status, InstallerInv, TypeOK

\* What a writer may count on.
LEMMA WritableMeans ==
  ASSUME InstallerInv, NEW targets, Writable(targets)
  PROVE  /\ pc = "applying" /\ Len(outcomes) < Len(plan)
         /\ UNCHANGED <<lastRun, plan, dry, pending, planLocks, settled, runs, edits>>
         /\ Due(Current) /\ Current.target \in targets
         /\ lockCache' = lockCache \/ (lockCache = <<>> /\ lockCache' = <<repo.locks>>)
         /\ lockCache' # <<>> /\ PathOf(Current.target) \notin lockCache'[1]
         /\ lockCache # <<>> => PathOf(Current.target) \notin lockCache[1]
<1>1. Working /\ Current.action # "skip" /\ ~Blocked /\ LocksRead /\ Fixed /\ Current.target \in targets
  BY DEF Writable
<1>2. Current.reason # "locked" /\ PathOf(Current.target) \notin Locks
  BY <1>1 DEF Blocked
<1>3. /\ lockCache' = lockCache \/ (lockCache = <<>> /\ lockCache' = <<repo.locks>>)
      /\ lockCache' # <<>> /\ lockCache'[1] = Locks
      /\ lockCache # <<>> => Locks = lockCache[1]
  BY <1>1, <1>2, LocksAreKept DEF InstallerInv
<1> QED
  BY <1>1, <1>2, <1>3 DEF Working, Fixed, Due

\* A dry run reports, and writes nothing.
LEMMA DryRunAdvances == ASSUME InstallerInv, SkipDryRun PROVE Advance
<1> DEFINE T == Target \ RegionTarget
<1>1. Writable(T) /\ dry /\ repo' = repo /\ UNCHANGED wrote /\ Finish("skipped")
  BY DEF SkipDryRun
<1>2. Grown(repo, repo') /\ Writes
  BY <1>1, WritersGrow DEF InstallerInv, TypeOK, Writes
<1>3. Due(Current)
  BY <1>1, WritableMeans
<1>4. Finishes("skipped")
  BY <1>1, <1>3 DEF Finish, Finishes, Status, Due
<1> QED
  BY <1>1, <1>2, <1>4, WritableMeans DEF Advance, Status, InstallerInv, TypeOK

\* A region is written, refused or found as it should be.
LEMMA RegionAdvances == ASSUME InstallerInv, CompareRegion PROVE Advance
<1>1. Writable(RegionTarget) /\ repo' = repo /\ UNCHANGED wrote
  BY DEF CompareRegion
<1>2. Grown(repo, repo') /\ Writes
  BY <1>1, WritersGrow DEF InstallerInv, TypeOK, Writes
<1>3. /\ pc = "applying" /\ Len(outcomes) < Len(plan) /\ Due(Current)
      /\ Current.target \in RegionTarget
      /\ lockCache' # <<>> /\ PathOf(Current.target) \notin lockCache'[1]
  BY <1>1, WritableMeans
<1>4. CASE repo.region = Body
  <2>1. NoOp(repo, Current.target)
    BY <1>3, <1>4, Targets DEF NoOp, RegionTarget, PlatformTarget
  <2>2. Finish("skipped")
    BY <1>4 DEF CompareRegion
  <2> QED
    BY <1>1, <1>2, <1>3, <2>1, <2>2, WritableMeans
    DEF Finish, Finishes, Status, Due, Quiet, Advance, InstallerInv, TypeOK
<1>5. CASE repo.region \notin {NoContent, Body} /\ Current.reason = "conflicting"
  <2>1. Finish("conflict")
    BY <1>5 DEF CompareRegion
  <2>2. ~NoOp(repo, Current.target)
    BY <1>3, <1>5 DEF NoOp
  <2>3. pending # NoRequest =>
          Quiet(repo, Recorded, Current.target, pending[Current.target])
    BY <1>3, <1>5, <2>2, AtHand DEF Stands, Refused, Quiet
  <2>4. Finishes("conflict")
    BY <1>1, <1>3, <2>1, <2>3 DEF Finish, Finishes, Status, Due
  <2> QED
    BY <1>1, <1>2, <1>3, <2>4, WritableMeans DEF Status, Advance, InstallerInv, TypeOK
<1>6. CASE repo.region # Body /\ ~(repo.region \notin {NoContent, Body} /\ Current.reason = "conflicting")
  <2>1. IF dry THEN Finish("skipped") ELSE pc' = "writing" /\ UNCHANGED outcomes
    BY <1>6 DEF CompareRegion
  <2>2. CASE dry
    BY <1>1, <1>2, <1>3, <2>1, <2>2, WritableMeans
    DEF Finish, Finishes, Status, Due, Advance, InstallerInv, TypeOK
  <2>3. CASE ~dry
    <3>1. ~NoOp(repo, Current.target) /\ ~Refused(repo, Current.target, Current.reason)
      BY <1>3, <1>6 DEF NoOp, Refused
    <3>2. settled = NoRequest
      BY <1>3, <3>1, AtHand
    <3> QED
      BY <1>1, <1>2, <1>3, <2>1, <2>3, <3>2, WritableMeans
      DEF Moves, Advance, InstallerInv, TypeOK
  <2> QED
    BY <2>2, <2>3
<1> QED
  BY <1>4, <1>5, <1>6

\* The file of each target.
LEMMA Paths ==
  /\ Path = {"CLAUDE.md", "eslint.config.guardrails.mjs", ".claude/settings.json",
             ".audit/audit.config.json", ".mcp.json"}
  /\ \A t \in RegionTarget : PathOf(t) = "CLAUDE.md"
  /\ \A t \in PlatformTarget : PathOf(t) = ".mcp.json"
  /\ PathOf("eslint-managed-layer") = "eslint.config.guardrails.mjs"
  /\ PathOf("claude-settings-hooks") = ".claude/settings.json"
<1>1. \A t \in RegionTarget : PathOf(t) = "CLAUDE.md"
  BY DEF PathOf, RegionTarget, PlatformTarget
<1>2. \A t \in PlatformTarget : PathOf(t) = ".mcp.json"
  BY DEF PathOf, RegionTarget, PlatformTarget
<1>3. /\ PathOf("eslint-managed-layer") = "eslint.config.guardrails.mjs"
      /\ PathOf("claude-settings-hooks") = ".claude/settings.json"
      /\ PathOf("audit-baseline") = ".audit/audit.config.json"
  BY DEF PathOf, RegionTarget, PlatformTarget
<1> QED
  BY <1>1, <1>2, <1>3, Targets DEF Path, RegionTarget, PlatformTarget

\* Each writer changes one file.
LEMMA FilesWritten ==
  ASSUME NEW r \in Repo, NEW p \in Path
  PROVE  /\ FileAt(WriteAgentBlock(r), p) # FileAt(r, p) => p = "CLAUDE.md"
         /\ FileAt(WriteLayered(r), p) # FileAt(r, p) => p = "eslint.config.guardrails.mjs"
         /\ FileAt(MergeHook(r), p) # FileAt(r, p) => p = ".claude/settings.json"
         /\ FileAt(WritePlugin(r), p) = FileAt(r, p)
         /\ FileAt(RegisterServer(r), p) # FileAt(r, p) => p = ".mcp.json"
         /\ FileAt(InjectBlock(r), p) = FileAt(r, p)
<1> DEFINE Same(after, but) ==
      /\ but # "region" => after.region = r.region
      /\ but # "layered" => after.layered = r.layered
      /\ but # "settings" => after.settings = r.settings /\ after.hooks = r.hooks
      /\ after.audit = r.audit
      /\ but # "mcp" => after.mcp = r.mcp /\ after.servers = r.servers
<1>1. ASSUME NEW after, Same(after, "region") PROVE FileAt(after, p) # FileAt(r, p) => p = "CLAUDE.md"
  BY <1>1, Paths DEF FileAt
<1>2. ASSUME NEW after, Same(after, "layered")
      PROVE  FileAt(after, p) # FileAt(r, p) => p = "eslint.config.guardrails.mjs"
  BY <1>2, Paths DEF FileAt
<1>3. ASSUME NEW after, Same(after, "settings")
      PROVE  FileAt(after, p) # FileAt(r, p) => p = ".claude/settings.json"
  BY <1>3, Paths DEF FileAt
<1>4. ASSUME NEW after, Same(after, "mcp") PROVE FileAt(after, p) # FileAt(r, p) => p = ".mcp.json"
  BY <1>4, Paths DEF FileAt
<1>5. ASSUME NEW after, Same(after, "none") PROVE FileAt(after, p) = FileAt(r, p)
  BY <1>5, Paths DEF FileAt
<1>6. /\ Same(WriteAgentBlock(r), "region") /\ Same(WriteLayered(r), "layered")
      /\ Same(MergeHook(r), "settings") /\ Same(WritePlugin(r), "none")
      /\ Same(RegisterServer(r), "mcp") /\ Same(InjectBlock(r), "none")
  BY DEF Repo, WriteAgentBlock, WriteLayered, MergeHook, WritePlugin, RegisterServer, InjectBlock
<1> HIDE DEF Same
<1> QED
  BY <1>1, <1>2, <1>3, <1>4, <1>5, <1>6

\* What a write in progress may count on.
LEMMA UnderWay ==
  ASSUME InstallerInv, pc \in {"writing", "server", "block"}
  PROVE  /\ Len(outcomes) < Len(plan) /\ ~dry /\ Due(Current)
         /\ lockCache # <<>> /\ PathOf(Current.target) \notin lockCache[1]
         /\ pc = "writing" => Current.target \in RegionTarget
         /\ pc \in {"server", "block"} => Current.target \in PlatformTarget
         /\ pending # NoRequest /\ pc \in {"server", "block"} => repo.plugin
         /\ pending # NoRequest /\ pc = "block" => Registered(repo)
         /\ settled # NoRequest =>
              NoOp(repo, Current.target) \/ Refused(repo, Current.target, Current.reason)
<1>1. Len(outcomes) < Len(plan) /\ ~dry /\ Due(Current)
  BY DEF InstallerInv, TypeOK, WholeInv
<1> QED
  BY <1>1, AtHand DEF InstallerInv, WholeInv, RunningInv

\* The region is written, whatever it held.
LEMMA WriteRegionAdvances == ASSUME InstallerInv, WriteRegion PROVE Advance
<1>1. /\ pc = "writing" /\ repo' = WriteAgentBlock(repo) /\ UNCHANGED <<wrote, lockCache>> /\ Fixed
      /\ \E s \in {"skipped", "applied"} : Finish(s)
  BY DEF WriteRegion
<1>2. repo \in Repo
  BY DEF InstallerInv, TypeOK
<1>3. Grown(repo, repo')
  BY <1>1, <1>2, WritersGrow
<1>4. Writes
  BY <1>1, <1>2, UnderWay, FilesWritten, Paths DEF Writes
<1>5. settled # NoRequest => repo' = repo
  BY <1>1 DEF InstallerInv, SettledInv
<1>6. NoOp(repo', Current.target)
  BY <1>1, <1>2, UnderWay DEF NoOp, RegionTarget, PlatformTarget, WriteAgentBlock, Repo
<1>7. \E s \in Status : Finishes(s)
  BY <1>1, <1>6, UnderWay DEF Finish, Finishes, Status, Due, Quiet
<1> QED
  BY <1>1, <1>3, <1>4, <1>5, <1>7, UnderWay DEF Advance, Fixed, InstallerInv, TypeOK

\* The ESLint layer is written, or has nothing to layer upon.
LEMMA LayeredAdvances == ASSUME InstallerInv, ApplyLayered PROVE Advance
<1> DEFINE T == {"eslint-managed-layer"}
<1>1. Writable(T) /\ ~dry /\ UNCHANGED wrote
  BY DEF ApplyLayered
<1>2. repo \in Repo /\ Current.target = "eslint-managed-layer" /\ Due(Current) /\ pc = "applying"
      /\ Len(outcomes) < Len(plan)
  BY <1>1, WritableMeans DEF InstallerInv, TypeOK
<1>3. settled # NoRequest => repo.layered \/ repo.entry # "flat"
  BY <1>2, AtHand DEF NoOp, Refused, RegionTarget
<1>4. CASE repo.entry = "flat"
  <2>1. repo' = WriteLayered(repo) /\ Finish("applied")
    BY <1>4 DEF ApplyLayered
  <2>2. Grown(repo, repo') /\ (settled # NoRequest => repo' = repo)
    BY <1>2, <1>3, <1>4, <2>1, WritersGrow, WritersIdle
  <2>3. Writes
    BY <1>1, <1>2, <2>1, WritableMeans, FilesWritten, Paths DEF Writes
  <2>4. NoOp(repo', Current.target)
    BY <1>2, <2>1 DEF NoOp, RegionTarget, PlatformTarget, WriteLayered, Repo
  <2>5. Finishes("applied")
    BY <1>2, <2>1, <2>4 DEF Finish, Finishes, Status, Due, Quiet
  <2> QED
    BY <1>1, <1>2, <2>2, <2>3, <2>5, WritableMeans DEF Advance, Status, InstallerInv, TypeOK
<1>5. CASE repo.entry # "flat"
  <2>1. repo' = repo /\ Finish("blocked")
    BY <1>5 DEF ApplyLayered
  <2>2. Grown(repo, repo') /\ Writes
    BY <1>2, <2>1, WritersGrow DEF Writes
  <2>3. NoOp(repo', Current.target)
    BY <1>2, <1>5, <2>1 DEF NoOp, RegionTarget, PlatformTarget
  <2>4. Finishes("blocked")
    BY <1>2, <2>1, <2>3 DEF Finish, Finishes, Status, Due, Quiet
  <2> QED
    BY <1>1, <1>2, <2>1, <2>2, <2>4, WritableMeans DEF Advance, Status, InstallerInv, TypeOK
<1> QED
  BY <1>4, <1>5

\* The hook is merged into the settings, or is there.
LEMMA SettingsAdvance == ASSUME InstallerInv, ApplySettings PROVE Advance
<1> DEFINE T == {"claude-settings-hooks"}
<1>1. /\ Writable(T) /\ ~dry /\ UNCHANGED wrote /\ repo' = MergeHook(repo)
      /\ \E s \in {"applied", "skipped"} : Finish(s)
  BY DEF ApplySettings
<1>2. repo \in Repo /\ Current.target = "claude-settings-hooks" /\ Due(Current) /\ pc = "applying"
      /\ Len(outcomes) < Len(plan)
  BY <1>1, WritableMeans DEF InstallerInv, TypeOK
<1>3. settled # NoRequest => repo.settings = "object" /\ repo.hooks # 0
  BY <1>2, AtHand DEF NoOp, Refused, RegionTarget
<1>4. Grown(repo, repo') /\ (settled # NoRequest => repo' = repo)
  BY <1>1, <1>2, <1>3, WritersGrow, WritersIdle
<1>5. Writes
  BY <1>1, <1>2, WritableMeans, FilesWritten, Paths DEF Writes
<1>6. NoOp(repo', Current.target)
  <2>1. repo'.settings = "object" /\ repo'.hooks # 0
    BY <1>1, <1>2 DEF MergeHook, Repo
  <2> QED
    BY <1>2, <2>1 DEF NoOp, RegionTarget, PlatformTarget
<1>7. \E s \in Status : Finishes(s)
  BY <1>1, <1>2, <1>6 DEF Finish, Finishes, Status, Due, Quiet
<1> QED
  BY <1>1, <1>2, <1>4, <1>5, <1>7, WritableMeans DEF Advance, InstallerInv, TypeOK

\* The three writes of the platform install; a settled one finds them all made.
LEMMA PlatformAdvances == ASSUME InstallerInv, ApplyPlatform PROVE Advance
<1>1. /\ Writable(PlatformTarget) /\ ~dry /\ repo' = WritePlugin(repo) /\ wrote' = ~repo.plugin
      /\ pc' = "server" /\ UNCHANGED outcomes
  BY DEF ApplyPlatform
<1>2. repo \in Repo /\ Current.target \in PlatformTarget /\ Due(Current) /\ pc = "applying"
      /\ Len(outcomes) < Len(plan)
  BY <1>1, WritableMeans DEF InstallerInv, TypeOK
<1>3. settled # NoRequest => repo.plugin
  BY <1>2, AtHand DEF NoOp, Refused, RegionTarget, PlatformTarget
<1>4. Grown(repo, repo') /\ (settled # NoRequest => repo' = repo)
  BY <1>1, <1>2, <1>3, WritersGrow, WritersIdle
<1>5. Writes
  BY <1>1, <1>2, FilesWritten DEF Writes
<1>6. repo'.plugin
  BY <1>1, <1>2 DEF WritePlugin, Repo
<1>7. Moves
  BY <1>1, <1>2, <1>6, WritableMeans DEF Moves
<1> QED
  BY <1>1, <1>2, <1>4, <1>5, <1>7, WritableMeans DEF Advance, InstallerInv, TypeOK

\* Registering the server leaves the plugin installed.
LEMMA ServerAdvances == ASSUME InstallerInv, InstallServer PROVE Advance
<1>1. /\ pc = "server" /\ repo' = RegisterServer(repo) /\ wrote' = (wrote \/ repo' # repo)
      /\ pc' = "block" /\ Fixed /\ UNCHANGED <<outcomes, lockCache>>
  BY DEF InstallServer
<1>2. repo \in Repo /\ wrote \in BOOLEAN
  BY DEF InstallerInv, TypeOK
<1>3. settled # NoRequest => Registered(repo)
  BY <1>1, UnderWay DEF NoOp, Refused, RegionTarget, PlatformTarget
<1>4. Grown(repo, repo') /\ (settled # NoRequest => repo' = repo)
  BY <1>1, <1>2, <1>3, WritersGrow, WritersIdle
<1>5. Writes
  BY <1>1, <1>2, UnderWay, FilesWritten, Paths DEF Writes
<1>6. Registered(repo') /\ (repo.plugin => repo'.plugin)
  BY <1>1, <1>2 DEF RegisterServer, Registered, Repo
<1>7. Moves
  BY <1>1, <1>6, UnderWay DEF Moves
<1>8. wrote' \in BOOLEAN
  BY <1>1
<1> QED
  BY <1>1, <1>4, <1>5, <1>7, <1>8, UnderWay DEF Advance, Fixed

\* With the block, both platform targets have nothing left to write.
LEMMA BlockAdvances == ASSUME InstallerInv, InstallBlock PROVE Advance
<1>1. /\ pc = "block" /\ repo' = InjectBlock(repo) /\ UNCHANGED <<wrote, lockCache>> /\ Fixed
      /\ \E s \in {"skipped", "applied"} : Finish(s)
  BY DEF InstallBlock
<1>2. repo \in Repo
  BY DEF InstallerInv, TypeOK
<1>3. settled # NoRequest => repo.doc = "block"
  BY <1>1, UnderWay DEF NoOp, Refused, RegionTarget, PlatformTarget
<1>4. Grown(repo, repo') /\ (settled # NoRequest => repo' = repo)
  BY <1>1, <1>2, <1>3, WritersGrow, WritersIdle
<1>5. Writes
  BY <1>1, <1>2, FilesWritten DEF Writes
<1>6. pending # NoRequest => NoOp(repo', Current.target)
  <2>1. pending # NoRequest => repo'.plugin /\ Registered(repo') /\ repo'.doc = "block"
    BY <1>1, <1>2, UnderWay DEF InjectBlock, Registered, Repo
  <2> QED
    BY <1>1, <2>1, UnderWay DEF NoOp, RegionTarget, PlatformTarget
<1>7. \E s \in Status : Finishes(s)
  BY <1>1, <1>6, UnderWay DEF Finish, Finishes, Status, Due, Quiet
<1> QED
  BY <1>1, <1>4, <1>5, <1>7, UnderWay DEF Advance, Fixed, InstallerInv, TypeOK

\* Every step between the start of a run and its end advances it.
LEMMA StepsAdvance ==
  ASSUME InstallerInv,
         \/ SkipSatisfied \/ SkipLocked \/ SkipDryRun
         \/ CompareRegion \/ WriteRegion \/ ApplyLayered \/ ApplySettings
         \/ ApplyPlatform \/ InstallServer \/ InstallBlock
  PROVE  Advance
BY SatisfiedAdvances, LockedAdvances, DryRunAdvances, RegionAdvances, WriteRegionAdvances,
   LayeredAdvances, SettingsAdvance, PlatformAdvances, ServerAdvances, BlockAdvances

\* What such a step keeps: the types,
LEMMA AdvanceTypes == ASSUME InstallerInv, Advance PROVE TypeOK'
<1>1. repo' \in Repo
  BY DEF Advance, Grown
<1>2. /\ plan \in Seq(Mutation) /\ outcomes \in Seq(Status) /\ Len(outcomes) < Len(plan)
      /\ plan' = plan
  BY DEF InstallerInv, TypeOK, Advance
<1>3. outcomes' \in Seq(Status) /\ Len(outcomes') <= Len(plan')
      /\ (pc' \in {"writing", "server", "block"} => Len(outcomes') < Len(plan'))
      /\ pc' \in {"idle", "applying", "writing", "server", "block"}
  <2>1. CASE Moves
    BY <1>2, <2>1 DEF Moves
  <2>2. CASE \E s \in Status : Finishes(s)
    BY <1>2, <2>2 DEF Finishes
  <2> QED
    BY <2>1, <2>2 DEF Advance
<1>4. lockCache' \in {<<>>} \cup {<<l>> : l \in SUBSET Path}
  <2>1. repo.locks \in SUBSET Path
    BY DEF InstallerInv, TypeOK, Repo, LockStatements
  <2> QED
    BY <2>1 DEF InstallerInv, TypeOK, Advance
<1> QED
  BY <1>1, <1>2, <1>3, <1>4 DEF InstallerInv, TypeOK, Advance

\* that outcomes say what the plan says,
LEMMA AdvanceWhole == ASSUME InstallerInv, Advance PROVE WholeInv'
<1>1. UNCHANGED <<lastRun, plan, dry, planLocks>> /\ outcomes \in Seq(Status) /\ Current = plan[Len(outcomes) + 1]
  BY DEF Advance, InstallerInv, TypeOK, Current
<1>2. CASE Moves
  <2>1. Current' = Current
    BY <1>1, <1>2 DEF Moves, Current
  <2> QED
    BY <1>1, <1>2, <2>1 DEF Moves, InstallerInv, WholeInv, RecordIsWhole
<1>3. ASSUME NEW s \in Status, Finishes(s) PROVE WholeInv'
  <2>1. \A i \in DOMAIN outcomes' :
          /\ plan[i].reason = "locked" => outcomes'[i] = "blocked"
          /\ plan[i].action = "skip" => outcomes'[i] = "skipped"
    BY <1>1, <1>3 DEF Finishes, InstallerInv, WholeInv
  <2>2. pc' = "applying"
    BY <1>3 DEF Finishes
  <2> QED
    BY <1>1, <2>1, <2>2 DEF InstallerInv, WholeInv, RecordIsWhole
<1> QED
  BY <1>2, <1>3 DEF Advance

\* that what was gone through needs no further run,
LEMMA AdvanceRunning == ASSUME InstallerInv, Advance PROVE RunningInv'
<1> SUFFICES ASSUME pending' # NoRequest, pc' # "idle" PROVE RunningInv'
  BY DEF RunningInv
<1>1. UNCHANGED <<lastRun, plan, dry, pending, planLocks>> /\ pc # "idle" /\ Grown(repo, repo')
      /\ Recorded' = Recorded /\ Recorded \in BOOLEAN /\ Len(outcomes) < Len(plan)
  BY DEF Advance, Recorded
<1>2. repo \in Repo /\ plan \in Seq(Mutation) /\ outcomes \in Seq(Status) /\ pending \in Request
  BY <1>1 DEF InstallerInv, TypeOK
<1>3. /\ \A i \in DOMAIN plan : plan[i].target \in DOMAIN pending
      /\ \A t \in DOMAIN pending : \E i \in DOMAIN plan : plan[i].target = t
      /\ repo.locks = planLocks
      /\ \A i \in DOMAIN plan :
           /\ plan[i].reason = "locked" => PathOf(plan[i].target) \in planLocks
           /\ Stands(repo, Recorded, plan[i], pending[plan[i].target])
      /\ ~dry /\ lockCache \in {<<>>, <<repo.locks>>} =>
           \A i \in DOMAIN outcomes :
             Quiet(repo, Recorded, plan[i].target, pending[plan[i].target])
  BY <1>1 DEF InstallerInv, RunningInv
<1>4. \A t \in DOMAIN pending : t \in Target /\ Wished(t, pending[t])
  BY <1>2, RequestWishes
<1>5. repo'.locks = repo.locks
  BY <1>1 DEF Grown
<1>6. ASSUME NEW i \in DOMAIN plan
      PROVE  Stands(repo', Recorded, plan[i], pending[plan[i].target])
  <2>1. plan[i] \in Mutation /\ Wished(plan[i].target, pending[plan[i].target])
    BY <1>2, <1>3, <1>4
  <2> QED
    BY <1>1, <1>2, <1>3, <2>1, PlanStands
<1>7. ASSUME ~dry, lockCache' \in {<<>>, <<repo'.locks>>}, NEW i \in DOMAIN outcomes'
      PROVE  Quiet(repo', Recorded, plan[i].target, pending[plan[i].target])
  <2>1. lockCache \in {<<>>, <<repo.locks>>}
    BY <1>5, <1>7 DEF Advance
  <2>2. ASSUME i \in DOMAIN outcomes
        PROVE  Quiet(repo', Recorded, plan[i].target, pending[plan[i].target])
    <3>1. i \in DOMAIN plan
      BY <1>1, <1>2, <2>2
    <3>2. plan[i].target \in Target /\ Wished(plan[i].target, pending[plan[i].target])
      BY <1>3, <1>4, <3>1
    <3>3. Quiet(repo, Recorded, plan[i].target, pending[plan[i].target])
      BY <1>3, <1>7, <2>1, <2>2
    <3> QED
      BY <1>1, <1>2, <3>2, <3>3, QuietStays
  <2>3. ASSUME i \notin DOMAIN outcomes
        PROVE  Quiet(repo', Recorded, plan[i].target, pending[plan[i].target])
    <3>1. PICK s \in Status : Finishes(s)
      BY <1>7, <2>3 DEF Advance, Moves
    <3>2. i = Len(outcomes) + 1
      BY <1>2, <1>7, <2>3, <3>1 DEF Finishes
    <3>3. plan[i] = Current
      BY <3>2 DEF Current
    <3> QED
      BY <1>1, <1>7, <3>1, <3>3 DEF Finishes
  <2> QED
    BY <2>2, <2>3
<1>8. /\ pc' \in {"server", "block"} => repo'.plugin
      /\ pc' = "block" => Registered(repo')
  BY <1>1 DEF Advance, Moves, Finishes
<1> QED
  BY <1>1, <1>3, <1>5, <1>6, <1>7, <1>8 DEF RunningInv

\* and that what is settled stays so.
LEMMA AdvanceSettled == ASSUME InstallerInv, Advance PROVE SettledInv'
<1> SUFFICES ASSUME settled' # NoRequest PROVE SettledInv'
  BY DEF SettledInv
<1>1. /\ UNCHANGED <<lastRun, plan, settled, repo>> /\ pc # "idle" /\ Recorded' = Recorded
      /\ pc' # "writing"
  BY DEF Advance, Recorded, Moves, Finishes
<1> QED
  BY <1>1 DEF InstallerInv, SettledInv

-----------------------------------------------------------------------------
\* The steps around a run.

\* A plan fits the repository it was made from; that of a settled request asks
\* nothing of a writer that is not idle.
LEMMA StartKeeps ==
  ASSUME InstallerInv, NEW q \in Request, NEW d \in BOOLEAN, StartRun(q, d)
  PROVE  InstallerInv'
<1>1. /\ plan' = PlanInstall(repo, Recorded, q) /\ outcomes' = <<>> /\ pc' = "applying"
      /\ dry' = d /\ pending' = q /\ planLocks' = repo.locks
      /\ settled' = IF settled = q THEN settled ELSE NoRequest
      /\ runs' = runs + 1 /\ runs < MaxRuns
      /\ UNCHANGED <<repo, lastRun, wrote, lockCache, edits>> /\ Recorded' = Recorded
  BY DEF StartRun, Recorded
<1>2. repo \in Repo /\ Recorded \in BOOLEAN /\ repo.locks \in SUBSET Path
  BY DEF InstallerInv, TypeOK, Recorded, Repo, LockStatements
<1>3. /\ plan' \in Seq(Mutation)
      /\ \A i \in DOMAIN plan' :
           /\ plan'[i].target \in DOMAIN q
           /\ plan'[i] = MutationOf(repo, Recorded, plan'[i].target, q[plan'[i].target])
      /\ \A t \in DOMAIN q : \E i \in DOMAIN plan' : plan'[i].target = t
  BY <1>1, <1>2, PlanOfRequest
<1>4. \A t \in DOMAIN q : t \in Target /\ Wished(t, q[t])
  BY RequestWishes
<1>5. ASSUME NEW i \in DOMAIN plan'
      PROVE  LET t == plan'[i].target
                 b == BaseDecision(repo, Recorded, t, q[t])
             IN  /\ plan'[i].action = b.action
                 /\ plan'[i].reason = IF b.action # "skip" /\ PathOf(t) \in repo.locks
                                      THEN "locked" ELSE b.reason
                 /\ b.reason # "locked"
  <2> DEFINE t == plan'[i].target
             b == BaseDecision(repo, Recorded, t, q[t])
             m == DecisionForTarget(repo, Recorded, t, q[t])
  <2>1. b \in [action : {"skip", "update", "create"},
               reason : {"already_satisfied", "stale", "conflicting", "missing"}]
    BY <1>3, <1>4
    DEF BaseDecision, DecisionFromState, DecisionForStatus, Satisfied, Update, Missing, Wished, Wish
  <2>2. plan'[i].action = m.action /\ plan'[i].reason = m.reason
    BY <1>3 DEF MutationOf
  <2>3. m = IF b.action # "skip" /\ PathOf(t) \in repo.locks THEN [b EXCEPT !.reason = "locked"]
            ELSE b
    BY DEF DecisionForTarget, Locked
  <2> HIDE DEF b, m
  <2>4. m.action = b.action
        /\ m.reason = IF b.action # "skip" /\ PathOf(t) \in repo.locks THEN "locked" ELSE b.reason
    BY <2>1, <2>3
  <2> QED
    BY <2>1, <2>2, <2>4 DEF b
<1>6. TypeOK'
  BY <1>1, <1>2, <1>3, InstallerAssumption DEF InstallerInv, TypeOK
<1>7. WholeInv'
  <2>1. ASSUME NEW i \in DOMAIN plan'
        PROVE  /\ plan'[i].reason = "locked" => plan'[i].action # "skip"
               /\ Due(plan'[i]) => PathOf(plan'[i].target) \notin planLocks'
    BY <1>1, <1>5 DEF Due
  <2> QED
    BY <1>1, <2>1 DEF WholeInv, InstallerInv, RecordIsWhole
<1>8. RunningInv'
  <2>1. ASSUME NEW i \in DOMAIN plan'
        PROVE  /\ plan'[i].reason = "locked" => PathOf(plan'[i].target) \in planLocks'
               /\ Stands(repo, Recorded, plan'[i], q[plan'[i].target])
    BY <1>1, <1>5 DEF Stands
  <2> QED
    BY <1>1, <1>3, <2>1 DEF RunningInv
<1>9. SettledInv'
  <2> SUFFICES ASSUME settled' # NoRequest PROVE SettledInv'
    BY DEF SettledInv
  <2>1. settled = q /\ settled' = q /\ settled # NoRequest
    BY <1>1, InstallerAssumption
  <2>2. \A t \in DOMAIN q : Quiet(repo, Recorded, t, q[t])
    BY <2>1 DEF InstallerInv, SettledInv
  <2>3. ASSUME NEW i \in DOMAIN plan', Due(plan'[i])
        PROVE  NoOp(repo, plan'[i].target) \/ Refused(repo, plan'[i].target, plan'[i].reason)
    <3>1. Quiet(repo, Recorded, plan'[i].target, q[plan'[i].target])
      BY <1>3, <2>2
    <3> QED
      BY <1>5, <2>3, <3>1 DEF Due, Quiet
  <2> QED
    BY <1>1, <2>1, <2>2, <2>3 DEF SettledInv
<1> QED
  BY <1>6, <1>7, <1>8, <1>9 DEF InstallerInv

\* A step that leaves the process idle, and the repository as it is.
LEMMA RestKeeps ==
  ASSUME InstallerInv, TypeOK', pc' = "idle",
         UNCHANGED <<repo, lastRun, plan, outcomes, dry, pending, planLocks, settled>>
  PROVE  InstallerInv'
<1>1. WholeInv'
  BY DEF InstallerInv, WholeInv, RecordIsWhole
<1>2. RunningInv'
  BY DEF RunningInv
<1>3. SettledInv'
  BY DEF InstallerInv, SettledInv, Recorded
<1> QED
  BY <1>1, <1>2, <1>3 DEF InstallerInv

\* A writer that throws leaves the repository as it found it.
LEMMA RejectKeeps == ASSUME InstallerInv, Reject PROVE InstallerInv'
<1>1. /\ pc' = "idle"
      /\ UNCHANGED <<repo, lastRun, plan, outcomes, dry, pending, planLocks, settled, wrote, runs, edits>>
      /\ lockCache' = lockCache \/ lockCache' = <<repo.locks>>
  <2>1. ASSUME NEW targets, Writable(targets)
        PROVE  /\ UNCHANGED <<lastRun, plan, dry, pending, planLocks, settled, runs, edits>>
               /\ lockCache' = lockCache \/ lockCache' = <<repo.locks>>
    BY <2>1, WritableMeans
  <2> QED
    BY <2>1 DEF Reject, Throws, Fixed
<1>2. TypeOK'
  <2>1. lockCache' \in {<<>>} \cup {<<l>> : l \in SUBSET Path}
    BY <1>1 DEF InstallerInv, TypeOK, Repo, LockStatements
  <2> QED
    BY <1>1, <2>1 DEF InstallerInv, TypeOK
<1> QED
  BY <1>1, <1>2, RestKeeps

\* So does a process that dies between two writes.
LEMMA RestartKeeps == ASSUME InstallerInv, Restart PROVE InstallerInv'
<1>1. TypeOK'
  BY DEF InstallerInv, TypeOK, Restart
<1> QED
  BY <1>1, RestKeeps DEF Restart

\* A real run that went through its plan with the present locks settles its request.
LEMMA FinishRunKeeps == ASSUME InstallerInv, FinishRun PROVE InstallerInv'
<1> DEFINE rec == [plan |-> plan, outcomes |-> outcomes]
<1>1. /\ pc = "applying" /\ Len(outcomes) = Len(plan) /\ pc' = "idle"
      /\ lastRun' = IF ~dry /\ "applied" \in Range(outcomes) THEN rec ELSE lastRun
      /\ settled' = IF dry THEN settled
                    ELSE IF lockCache \in {<<>>, <<repo.locks>>} THEN pending ELSE NoRequest
      /\ UNCHANGED <<repo, plan, outcomes, dry, wrote, lockCache, pending, planLocks, runs, edits>>
  BY DEF FinishRun
<1>2. /\ plan \in Seq(Mutation) /\ outcomes \in Seq(Status) /\ repo \in Repo
      /\ pending \in Request \cup {NoRequest} /\ settled \in Request \cup {NoRequest}
  BY DEF InstallerInv, TypeOK
<1>3. TypeOK'
  <2>1. lastRun' = <<>> \/ lastRun' \in [plan : Seq(Mutation), outcomes : Seq(Status)]
    BY <1>1, <1>2 DEF InstallerInv, TypeOK
  <2>2. settled' \in Request \cup {NoRequest}
    BY <1>1, <1>2
  <2> QED
    BY <1>1, <2>1, <2>2 DEF InstallerInv, TypeOK
<1>4. RecordIsWhole'
  <2>1. CASE lastRun' = lastRun
    BY <2>1 DEF InstallerInv, WholeInv, RecordIsWhole
  <2>2. CASE lastRun' = rec /\ "applied" \in Range(outcomes)
    <3>1. lastRun'.plan = plan /\ lastRun'.outcomes = outcomes /\ DOMAIN plan = DOMAIN outcomes
      BY <1>1, <1>2, <2>2
    <3> QED
      BY <1>1, <2>2, <3>1 DEF InstallerInv, WholeInv, RecordIsWhole
  <2> QED
    BY <1>1, <2>1, <2>2
<1>5. WholeInv'
  BY <1>1, <1>4 DEF InstallerInv, WholeInv
<1>6. RunningInv'
  BY <1>1 DEF RunningInv
<1>7. (Recorded => Recorded') /\ Recorded \in BOOLEAN /\ Recorded' \in BOOLEAN
  <2>1. rec # <<>>
    <3>1. DOMAIN rec # DOMAIN <<>>
      <4>1. "plan" \in DOMAIN rec /\ "plan" \notin DOMAIN <<>>
        OBVIOUS
      <4> QED
        BY <4>1
    <3> QED
      BY <3>1
  <2> QED
    BY <1>1, <2>1 DEF Recorded
<1>8. SettledInv'
  <2> SUFFICES ASSUME settled' # NoRequest
               PROVE  \A t \in DOMAIN settled' : Quiet(repo, Recorded', t, settled'[t])
    BY <1>1 DEF SettledInv
  <2>1. settled' \in Request
    BY <1>3 DEF TypeOK
  <2>2. \A t \in DOMAIN settled' : Quiet(repo, Recorded, t, settled'[t])
    <3>1. CASE dry
      BY <1>1, <3>1 DEF InstallerInv, SettledInv
    <3>2. CASE ~dry
      <4>1. /\ settled' = pending /\ pending # NoRequest
            /\ lockCache \in {<<>>, <<repo.locks>>}
        BY <1>1, <3>2
      <4>2. /\ \A t \in DOMAIN pending : \E i \in DOMAIN plan : plan[i].target = t
            /\ \A i \in DOMAIN outcomes :
                 Quiet(repo, Recorded, plan[i].target, pending[plan[i].target])
        BY <1>1, <3>2, <4>1 DEF InstallerInv, RunningInv
      <4>3. DOMAIN plan = DOMAIN outcomes
        BY <1>1, <1>2
      <4> QED
        BY <4>1, <4>2, <4>3
    <3> QED
      BY <3>1, <3>2
  <2>3. Grown(repo, repo)
    BY <1>2, WritersGrow
  <2>4. \A t \in DOMAIN settled' : t \in Target /\ Wished(t, settled'[t])
    BY <2>1, RequestWishes
  <2> QED
    BY <1>2, <1>7, <2>2, <2>3, <2>4, QuietStays
<1> QED
  BY <1>3, <1>5, <1>6, <1>8 DEF InstallerInv

\* A person's edit makes a repository of a repository.
LEMMA EditsAreRepositories ==
  ASSUME NEW r \in Repo, NEW after \in EditsOf(r)
  PROVE  after \in Repo
<1> USE DEF Repo, RegionState, DocMarkers, LockStatements
<1>1. \A c \in Content \cup {NoContent} : [r EXCEPT !.region = c] \in Repo
  OBVIOUS
<1>2. \A p \in Path : [r EXCEPT !.locks = @ \cup {p}] \in Repo /\ [r EXCEPT !.locks = @ \ {p}] \in Repo
  OBVIOUS
<1>3. [r EXCEPT !.settings = IF @ = "absent" THEN @ ELSE "malformed"] \in Repo
  OBVIOUS
<1>4. [r EXCEPT !.doc = IF @ = "block" THEN "doubled" ELSE @] \in Repo
  OBVIOUS
<1>5. Uninstall(r) \in Repo
  <2> DEFINE s == r.servers \ {"katana"}
             m == IF r.mcp = "object" /\ s = {} THEN "absent" ELSE r.mcp
             d == IF r.doc = "doubled" THEN "block" ELSE "none"
  <2>1. Uninstall(r) = [r EXCEPT !.plugin = FALSE, !.servers = s, !.mcp = m, !.doc = d]
    BY DEF Uninstall
  <2>2. s \subseteq {"katana", "daimyo"} /\ m \in {"absent", "object", "malformed"}
        /\ d \in {"none", "block", "doubled"}
    OBVIOUS
  <2> HIDE DEF s, m, d
  <2>3. [r EXCEPT !.plugin = FALSE, !.servers = s, !.mcp = m, !.doc = d] \in Repo
    BY <2>2
  <2> QED
    BY <2>1, <2>3
<1> HIDE DEF Repo, RegionState, DocMarkers, LockStatements
<1> QED
  BY <1>1, <1>2, <1>3, <1>4, <1>5 DEF EditsOf

\* It disturbs what was planned and what was settled.
LEMMA EditKeeps == ASSUME InstallerInv, Edit PROVE InstallerInv'
<1>1. /\ repo' \in Repo /\ edits' = edits + 1 /\ edits < MaxEdits
      /\ pending' = NoRequest /\ settled' = NoRequest
      /\ UNCHANGED <<lastRun, pc, plan, outcomes, dry, wrote, lockCache, planLocks, runs>>
  BY EditsAreRepositories DEF Edit, InstallerInv, TypeOK
<1>2. TypeOK'
  BY <1>1, InstallerAssumption DEF InstallerInv, TypeOK
<1>3. WholeInv'
  BY <1>1 DEF InstallerInv, WholeInv, RecordIsWhole, Current
<1> QED
  BY <1>1, <1>2, <1>3 DEF InstallerInv, RunningInv, SettledInv

\* Nothing is planned, written or settled at first.
LEMMA InstallerStarts == Init => InstallerInv
<1> SUFFICES ASSUME Init PROVE InstallerInv
  OBVIOUS
<1>1. TypeOK
  <2>1. repo \in Repo /\ lockCache \in {<<>>} \cup {<<l>> : l \in SUBSET Path}
    BY InstallerAssumption DEF Init
  <2>2. plan \in Seq(Mutation) /\ outcomes \in Seq(Status) /\ Len(outcomes) <= Len(plan)
    BY DEF Init
  <2>3. runs \in 0..MaxRuns /\ edits \in 0..MaxEdits
    BY InstallerAssumption DEF Init
  <2>4. dry \in BOOLEAN /\ wrote \in BOOLEAN
    BY DEF Init
  <2> QED
    BY <2>1, <2>2, <2>3, <2>4 DEF Init, TypeOK
<1> QED
  BY <1>1 DEF Init, InstallerInv, WholeInv, RunningInv, SettledInv, RecordIsWhole

\* So every step keeps the invariant.
LEMMA InstallerSteps == InstallerInv /\ [Next]_vars => InstallerInv'
<1> SUFFICES ASSUME InstallerInv, [Next]_vars PROVE InstallerInv'
  OBVIOUS
<1>1. CASE UNCHANGED vars
  BY <1>1 DEF vars, InstallerInv, TypeOK, WholeInv, RunningInv, SettledInv, RecordIsWhole, Recorded, Current
<1>2. ASSUME Advance PROVE InstallerInv'
  BY <1>2, AdvanceTypes, AdvanceWhole, AdvanceRunning, AdvanceSettled DEF InstallerInv
<1>3. CASE Run
  BY <1>2, <1>3, StartKeeps, StepsAdvance, RejectKeeps, FinishRunKeeps DEF Run
<1> QED
  BY <1>1, <1>3, RestartKeeps, EditKeeps DEF Next

-----------------------------------------------------------------------------
\* The types of the installer's state, and with them: plans and outcomes agree, a
\* run leaves nothing undone of what it went through, and a settled request is
\* one whose targets are all left alone by a further run.
THEOREM InstallerInvariant == Spec => []InstallerInv
BY InstallerStarts, InstallerSteps, PTL DEF Spec

\* For any repositories, requests, edits and kills, .dev-genie/init.last-run.json
\* tells of a whole run, whose outcomes say what its plan says (recordLastRun).
THEOREM RecordsAreWhole == Spec => []RecordIsWhole
<1>1. InstallerInv => RecordIsWhole
  BY DEF InstallerInv, WholeInv
<1> QED
  BY <1>1, InstallerInvariant, PTL

\* An installer step changes no file in a dry run, and none that was locked when
\* its plan was made or when this process first read the locks (findLock).
THEOREM LocksAreHonoured == Spec => LocksHonoured
<1> DEFINE Step == edits' = edits =>
                     \A p \in Path : FileAt(repo', p) # FileAt(repo, p) =>
                       /\ ~dry
                       /\ p \notin planLocks
                       /\ lockCache # <<>> => p \notin lockCache[1]
<1>1. InstallerInv /\ [Next]_vars => [Step]_vars
  <2> SUFFICES ASSUME InstallerInv, Next, edits' = edits, NEW p \in Path,
                      FileAt(repo', p) # FileAt(repo, p)
               PROVE  /\ ~dry /\ p \notin planLocks
                      /\ lockCache # <<>> => p \notin lockCache[1]
    BY Zenon
  <2>1. repo' # repo
    OBVIOUS
  <2>2. ~Edit
    BY DEF Edit, InstallerInv, TypeOK
  <2>3. Advance
    BY <2>1, <2>2, StepsAdvance DEF Next, Run, StartRun, Reject, FinishRun, Restart
  <2>4. /\ ~dry /\ Due(Current) /\ p = PathOf(Current.target)
        /\ lockCache # <<>> => p \notin lockCache[1]
    BY <2>3 DEF Advance, Writes
  <2>5. Len(outcomes) + 1 \in DOMAIN plan /\ Current = plan[Len(outcomes) + 1]
    BY <2>3, AtHand DEF Advance
  <2> QED
    BY <2>4, <2>5 DEF InstallerInv, WholeInv
<1> QED
  BY <1>1, InstallerInvariant, PTL DEF Spec, LocksHonoured

\* Once a request is settled and nobody edits the repository, further runs of it
\* change no file, whatever they plan and wherever they are cut short.
THEOREM RerunsChangeNothing == Spec => RerunIsNoOp
<1>1. InstallerInv /\ [Next]_vars =>
        [settled # NoRequest /\ settled' # NoRequest => repo' = repo]_vars
  <2> SUFFICES ASSUME InstallerInv, Next, settled # NoRequest, settled' # NoRequest
               PROVE  repo' = repo
    BY Zenon
  <2>1. ASSUME Advance PROVE repo' = repo
    BY <2>1 DEF Advance
  <2> QED
    BY <2>1, StepsAdvance DEF Next, Run, StartRun, Reject, FinishRun, Restart, Edit
<1> QED
  BY <1>1, InstallerInvariant, PTL DEF Spec, RerunIsNoOp

-----------------------------------------------------------------------------
\* The findings.

\* The findings of the groups the user has answered for.
AnsweredGroups == UNION {Apply!Group(Apply!Severity[k]) : k \in 1..(group - 1)}

\* What is still open of the findings is open for a reason: the user has not been
\* asked about its group yet, or it is accepted and not written yet. What is
\* accepted and listed as skipped is skipped in name only, and the rules, which are
\* written together, are in one list together.
AccountInv ==
  /\ applyPc \in {"confirm", "locks", "write", "done"} =>
       accepted \cup skipped \subseteq Apply!Actionable
  /\ applyPc \in {"confirm", "locks"} => applied = {} /\ errors = {}
  /\ applyPc = "confirm" /\ mode # "interactive" => accepted = {} /\ skipped = {}
  /\ applyPc = "confirm" /\ mode = "interactive" => accepted \cup skipped = AnsweredGroups
  /\ applyPc \in {"locks", "write"} => accepted \cup skipped = Apply!Actionable
  /\ applyPc = "write" => /\ applied \cup errors \subseteq accepted
                          /\ todo \subseteq accepted \ Rule
                          /\ accepted \ Rule \subseteq applied \cup errors \cup todo
                          /\ applied \cap errors = {}
                          /\ todo \cap (applied \cup errors) = {}
                          /\ \A list \in {applied, errors} :
                               accepted \cap Rule \subseteq list \/ Rule \cap list = {}
  /\ applyPc = "confirm" => ~quit
  /\ applyPc \in {"confirm", "locks"} => locked = {}
  /\ applyPc \in {"confirm", "locks", "write"} =>
       locked \subseteq accepted /\ skipped \cap accepted = Apply!SkippedInName
  /\ EveryFindingIsReported

FlowInv == Apply!TypeOK /\ AccountInv

\* Of findings that are left one comes first.
LEMMA SomeFindingIsForemost ==
  ASSUME Apply!TypeOK, todo # {}
  PROVE  Apply!Foremost \in todo
<1> USE ApplyAssumption DEF Apply!FlowAssumption
<1> DEFINE Turns == {Apply!Turn(f) : f \in todo}
<1>1. \A f \in Apply!Finding : Apply!Position(f) \in DOMAIN Order
  BY DEF Apply!Position, Apply!Range
<1>2. \A f \in Apply!Finding : Apply!Level(f) \in 1..3
  BY DEF Apply!Level, Apply!Severity, Apply!SeverityOf
<1>3. Len(Order) \in Nat /\ DOMAIN Order = 1..Len(Order)
  OBVIOUS
<1>4. \A f \in Apply!Finding : Apply!Turn(f) \in Nat
  <2> TAKE f \in Apply!Finding
  <2>1. Apply!Level(f) * Len(Order) \in Nat
    BY <1>2, <1>3
  <2>2. Apply!Position(f) \in Nat
    BY <1>1, <1>3
  <2> QED
    BY <2>1, <2>2 DEF Apply!Turn
<1>5. Turns \subseteq Nat /\ Turns # {}
  BY <1>4 DEF Apply!TypeOK
<1>6. PICK least \in Turns : \A t \in Turns : ~(t < least)
  <2> HIDE DEF Turns
  <2>1. PICK least \in Turns : \A t \in Turns : <<t, least>> \notin OpToRel(<, Nat)
    BY <1>5, NatLessThanWellFounded, WFMin, Zenon
  <2> QED
    BY <1>5, <2>1 DEF OpToRel
<1>7. PICK f \in todo : Apply!Turn(f) = least
  BY <1>6
<1>8. \A g \in todo : Apply!Turn(f) <= Apply!Turn(g)
  <2> SUFFICES ASSUME NEW g \in todo PROVE Apply!Turn(f) <= Apply!Turn(g)
    OBVIOUS
  <2>1. Apply!Turn(g) \in Nat /\ Apply!Turn(f) \in Nat /\ Apply!Turn(g) \in Turns
    BY <1>4 DEF Apply!TypeOK
  <2> HIDE DEF Turns
  <2> QED
    BY <1>6, <1>7, <2>1
<1> QED
  BY <1>8 DEF Apply!Foremost

\* What of package.json is the user's, and stays so.
OwnKept(r, after) ==
  /\ \A s \in Script : r.scripts[s] = "user" => after.scripts[s] = "user"
  /\ r.hook = "user" => after.hook = "user"
  /\ r.staged = "user" => after.staged = "user"
  /\ r.build \in {"user", "ours && user"} => after.build \in {"user", "ours && user"}

\* A repository that a writer or a person may make of another.
Follows(r, after) == after \in Apply!RepoState /\ OwnKept(r, after)

\* The writers of the command keep what is the user's,
LEMMA WritersFollow ==
  ASSUME NEW r \in Apply!RepoState, NEW f \in Apply!Finding \ Rule,
         Apply!Apply(r, f) # Apply!Failed
  PROVE  Follows(r, Apply!Apply(r, f)[1])
<1>0. /\ Option \cap Script = {}
      /\ \A s \in {"pre-commit", "build", "ci"} : s \notin Option /\ s \notin Script
  BY ApplyAssumption DEF Apply!FlowAssumption, Apply!Stage
<1>1. ASSUME f \in Option
      PROVE  Follows(r, Apply!Apply(r, f)[1])
  <2>1. f \notin Script /\ f \notin {"pre-commit", "build", "ci"}
    BY <1>0, <1>1
  <2>2. Apply!Apply(r, f) = Apply!SetOption(r, f)
    BY <1>1, <2>1 DEF Apply!Apply
  <2>3. Apply!Apply(r, f) = <<[r EXCEPT !.options[f] = "present"]>>
    BY <2>2 DEF Apply!SetOption, Apply!Failed
  <2>4. Follows(r, [r EXCEPT !.options[f] = "present"])
    BY <1>1 DEF Apply!RepoState, Follows, OwnKept, Apply!Status
  <2> QED
    BY <2>3, <2>4
<1>2. ASSUME f \in Script
      PROVE  Follows(r, Apply!Apply(r, f)[1])
  <2>1. f \notin Option /\ f \notin {"pre-commit", "build", "ci"}
    BY <1>0, <1>2
  <2>2. Apply!Apply(r, f) = Apply!AddScript(r, f)
    BY <1>2, <2>1 DEF Apply!Apply
  <2>3. Apply!Apply(r, f) =
          <<[r EXCEPT !.scripts[f] = IF @ = "none" THEN "baseline" ELSE @]>>
    BY <2>2 DEF Apply!AddScript, Apply!Failed
  <2>4. Follows(r, [r EXCEPT !.scripts[f] = IF @ = "none" THEN "baseline" ELSE @])
    BY <1>2 DEF Apply!RepoState, Follows, OwnKept
  <2> QED
    BY <2>3, <2>4
<1>3. ASSUME f \in Apply!Stage
      PROVE  Follows(r, Apply!Apply(r, f)[1])
  <2> USE DEF Apply!RepoState, Follows, OwnKept, Apply!Failed
  <2>1. f \notin Option /\ f \notin Script
    BY <1>0, <1>3 DEF Apply!Stage
  <2>2. CASE f = "pre-commit"
    BY <2>1, <2>2 DEF Apply!Apply, Apply!InstallHook
  <2>3. CASE f = "build"
    BY <2>1, <2>3 DEF Apply!Apply, Apply!ChainBuild
  <2>4. CASE f = "ci"
    BY <2>1, <2>4 DEF Apply!Apply, Apply!AddWorkflow
  <2> QED
    BY <1>3, <2>2, <2>3, <2>4 DEF Apply!Stage
<1> QED
  BY <1>1, <1>2, <1>3 DEF Apply!Finding

\* the writer of the lint rules too,
LEMMA LayerFollows ==
  ASSUME NEW r \in Apply!RepoState, NEW rules \in SUBSET Rule,
         Apply!WriteLayer(r, rules) # Apply!Failed
  PROVE  Follows(r, Apply!WriteLayer(r, rules)[1])
BY DEF Apply!RepoState, Follows, OwnKept, Apply!Failed, Apply!WriteLayer

\* and so do the user's own edits.
LEMMA EditsFollow ==
  ASSUME NEW r \in Apply!RepoState, NEW after \in Apply!EditsOf(r)
  PROVE  Follows(r, after)
<1>1. ASSUME NEW s \in Script, r.scripts[s] = "none", after = [r EXCEPT !.scripts[s] = "user"]
      PROVE  Follows(r, after)
  <2>1. after \in Apply!RepoState
    BY <1>1 DEF Apply!RepoState
  <2>2. OwnKept(r, after)
    BY <1>1 DEF Apply!RepoState, OwnKept
  <2> QED
    BY <2>1, <2>2 DEF Follows
<1>2. ASSUME r.hook = "none", after = [r EXCEPT !.hook = "user"]
      PROVE  Follows(r, after)
  <2>1. after \in Apply!RepoState
    BY <1>2 DEF Apply!RepoState
  <2>2. OwnKept(r, after)
    BY <1>2 DEF Apply!RepoState, OwnKept
  <2> QED
    BY <2>1, <2>2 DEF Follows
<1>3. ASSUME NEW f \in Rule, after = [r EXCEPT !.entry = "flat", !.rules[f] = "present"]
      PROVE  Follows(r, after)
  <2> DEFINE rules == [r.rules EXCEPT ![f] = "present"]
  <2>1. rules \in [Rule -> Apply!Status]
    BY DEF Apply!RepoState, Apply!Status
  <2>2. after = [r EXCEPT !.entry = "flat", !.rules = rules]
    BY <1>3 DEF Apply!RepoState
  <2> HIDE DEF rules
  <2>3. after \in Apply!RepoState
    BY <2>1, <2>2 DEF Apply!RepoState
  <2>4. OwnKept(r, after)
    BY <2>2 DEF Apply!RepoState, OwnKept
  <2> QED
    BY <2>3, <2>4 DEF Follows
<1>4. ASSUME NEW p \in Apply!Lockable, after = [r EXCEPT !.locks = @ \cup {p}]
      PROVE  Follows(r, after)
  <2>1. after \in Apply!RepoState
    BY <1>4 DEF Apply!RepoState
  <2>2. OwnKept(r, after)
    BY <1>4 DEF Apply!RepoState, OwnKept
  <2> QED
    BY <2>1, <2>2 DEF Follows
<1> QED
  BY <1>1, <1>2, <1>3, <1>4, Zenon DEF Apply!EditsOf

\* The user's entries, step by step.
LEMMA StepFollows ==
  ASSUME FlowInv, Apply!Next
  PROVE  Follows(appliedRepo, appliedRepo')
<1>1. appliedRepo \in Apply!RepoState
  BY DEF FlowInv, Apply!TypeOK
<1>2. CASE appliedRepo' = appliedRepo
  BY <1>1, <1>2 DEF Follows, OwnKept
<1>3. CASE Apply!WriteRules /\ appliedRepo' # appliedRepo
  BY <1>1, <1>3, LayerFollows DEF Apply!WriteRules
<1>4. CASE Apply!WriteNext /\ appliedRepo' # appliedRepo
  <2>1. Apply!Foremost \in Apply!Finding \ Rule
    BY <1>4, SomeFindingIsForemost DEF FlowInv, AccountInv, Apply!WriteNext, Apply!TypeOK
  <2> QED
    BY <1>1, <1>4, <2>1, WritersFollow DEF Apply!WriteNext
<1>5. CASE Apply!Finish
  BY <1>1, <1>5 DEF Apply!Finish, Apply!RepoState, Follows, OwnKept
<1>6. CASE Apply!Edit
  BY <1>1, <1>6, EditsFollow DEF Apply!Edit
<1> QED
  BY <1>2, <1>3, <1>4, <1>5, <1>6
  DEF Apply!Next, Apply!Compare, Apply!Preview, Apply!NothingFound, Apply!AcceptByMode,
      Apply!AnswerGroup, Apply!QuitPrompt, Apply!ResolveLocks, Apply!Killed

\* The types of the state are kept.
LEMMA FlowTypes ==
  ASSUME FlowInv, Apply!Next
  PROVE  Apply!TypeOK'
<1>1. appliedRepo' \in Apply!RepoState
  BY StepFollows DEF Follows
<1>2. ApplyRuns \in Nat /\ ApplyEdits \in Nat
  BY ApplyAssumption DEF Apply!FlowAssumption
<1> USE <1>1, <1>2 DEF FlowInv, Apply!TypeOK
<1>3. ASSUME NEW m \in Apply!Mode, Apply!Compare(m) PROVE Apply!TypeOK'
  <2>1. \A f \in Apply!Finding : Apply!StatusOf(appliedRepo, f) \in Apply!Status
    BY DEF Apply!StatusOf, Apply!RuleStatus, Apply!OptionStatus, Apply!ScriptStatus,
           Apply!HookStatus, Apply!BuildStatus, Apply!CIStatus, Apply!Status,
           Apply!RepoState, Apply!Finding, Apply!Stage
  <2>2. quit' = FALSE
    BY <1>3 DEF Apply!Compare
  <2>3. found' \in [Apply!Finding -> Apply!Status] /\ group' \in 1..3
    BY <1>3, <2>1 DEF Apply!Compare
  <2>4. /\ applyPc' = "confirm" /\ mode' = m /\ record' = record
        /\ accepted' = {} /\ lifts' = {} /\ todo' = {} /\ applied' = {}
        /\ skipped' = {} /\ errors' = {} /\ written' = {} /\ locked' = {}
    BY <1>3 DEF Apply!Compare
  <2>5. runsApplied' \in 0..ApplyRuns /\ editsApplied' \in 0..ApplyEdits
    BY <1>3 DEF Apply!Compare
  <2> QED
    BY <2>2, <2>3, <2>4, <2>5
<1>4. CASE Apply!Preview
  BY <1>4 DEF Apply!Preview, Apply!Actionable
<1>5. CASE Apply!NothingFound
  BY <1>5 DEF Apply!NothingFound, Apply!run, Apply!report
<1>6. CASE Apply!AcceptByMode
  BY <1>6 DEF Apply!AcceptByMode, Apply!Actionable, Apply!Group
<1>7. CASE Apply!AnswerGroup
  BY <1>7 DEF Apply!AnswerGroup, Apply!TakeOf, Apply!Actionable, Apply!Group, Apply!Severity
<1>8. CASE Apply!QuitPrompt
  BY <1>8 DEF Apply!QuitPrompt, Apply!Actionable
<1>9. CASE Apply!ResolveLocks
  <2>1. \A f \in Apply!LockedFindings : Apply!PathOf(f) \in Apply!Lockable
    BY DEF Apply!LockedFindings, Apply!RepoState
  <2>2. Apply!LockedFindings \subseteq accepted
    BY DEF Apply!LockedFindings
  <2>3. lifts' \subseteq Apply!Lockable
    BY <1>9, <2>1 DEF Apply!ResolveLocks
  <2>4. skipped' \subseteq Apply!Finding /\ locked' \subseteq Apply!Finding
    BY <1>9, <2>2 DEF Apply!ResolveLocks
  <2> QED
    BY <1>9, <2>3, <2>4 DEF Apply!ResolveLocks
<1>10. CASE Apply!WriteRules
  BY <1>10 DEF Apply!WriteRules
<1>11. CASE Apply!WriteNext
  <2>1. Apply!Foremost \in Apply!Finding
    BY <1>11, SomeFindingIsForemost DEF Apply!WriteNext
  <2> QED
    BY <1>11, <2>1 DEF Apply!WriteNext
<1>12. CASE Apply!Finish
  BY <1>12 DEF Apply!Finish, Apply!run, Apply!report
<1>13. CASE Apply!Killed
  <2>1. quit' = FALSE
    BY <1>13 DEF Apply!Killed
  <2>2. found' \in [Apply!Finding -> Apply!Status] /\ group' \in 1..3 /\ mode' \in Apply!Mode
    BY <1>13 DEF Apply!Killed, Apply!Mode, Apply!Status
  <2> QED
    BY <1>13, <2>1, <2>2 DEF Apply!Killed
<1>14. CASE Apply!Edit
  BY <1>14 DEF Apply!Edit, Apply!run, Apply!report
<1> QED
  BY <1>3, <1>4, <1>5, <1>6, <1>7, <1>8, <1>9, <1>10, <1>11, <1>12, <1>13, <1>14
  DEF Apply!Next

\* The lists account for the findings at every step.
LEMMA FlowAccounts ==
  ASSUME FlowInv, Apply!Next
  PROVE  AccountInv'
<1> USE DEF FlowInv, AccountInv, EveryFindingIsReported, Apply!EveryFindingIsReported,
            Apply!SkippedInName
<1>1. ASSUME NEW m \in Apply!Mode, Apply!Compare(m) PROVE AccountInv'
  BY <1>1 DEF Apply!Compare, AnsweredGroups
<1>2. CASE Apply!Preview
  BY <1>2 DEF Apply!Preview, Apply!Actionable
<1>3. CASE Apply!NothingFound
  BY <1>3 DEF Apply!NothingFound, Apply!run, Apply!report, Apply!Actionable
<1>4. CASE Apply!AcceptByMode
  BY <1>4 DEF Apply!AcceptByMode, Apply!Actionable, Apply!Group
<1>5. CASE Apply!AnswerGroup
  <2> DEFINE G(k) == Apply!Group(Apply!Severity[k])
  <2>1. group \in 1..3 /\ applyPc = "confirm" /\ mode = "interactive"
    BY <1>5 DEF Apply!AnswerGroup, Apply!TypeOK
  <2>2. Apply!Actionable' = Apply!Actionable /\ \A k \in 1..3 : G(k)' = G(k)
    BY <1>5 DEF Apply!AnswerGroup, Apply!Actionable, Apply!Group
  <2>3. accepted' \cup skipped' = AnsweredGroups \cup G(group)
    BY <1>5, <2>1 DEF Apply!AnswerGroup, Apply!TakeOf
  <2>4. AnsweredGroups \cup G(group) = UNION {G(k) : k \in 1..group}
    BY <2>1 DEF AnsweredGroups
  <2>5. UNION {G(k) : k \in 1..3} = Apply!Actionable
    BY DEF Apply!Group, Apply!Severity, Apply!SeverityOf
  <2>8. AnsweredGroups \cap G(group) = {}
    BY <2>1 DEF AnsweredGroups, Apply!Group, Apply!Severity
  <2>9. skipped' \cap accepted' = {} /\ locked' = {} /\ ~quit' /\ Apply!SkippedInName' = {}
    BY <1>5, <2>1, <2>8 DEF Apply!AnswerGroup, Apply!TakeOf, Apply!SkippedInName
  <2>6. CASE group = 3
    BY <1>5, <2>1, <2>2, <2>3, <2>4, <2>5, <2>6, <2>9 DEF Apply!AnswerGroup, Apply!Severity
  <2>7. CASE group # 3
    <3>1. group' = group + 1 /\ applyPc' = "confirm" /\ mode' = mode
      BY <1>5, <2>7 DEF Apply!AnswerGroup, Apply!Severity
    <3>2. AnsweredGroups' = UNION {G(k) : k \in 1..group}
      BY <2>1, <2>2, <3>1 DEF AnsweredGroups, Apply!Group, Apply!Actionable
    <3>3. UNION {G(k) : k \in 1..group} \subseteq Apply!Actionable
      BY DEF Apply!Group
    <3> QED
      BY <1>5, <2>1, <2>2, <2>3, <2>4, <2>9, <3>1, <3>2, <3>3 DEF Apply!AnswerGroup
  <2> QED
    BY <2>6, <2>7
<1>6. CASE Apply!QuitPrompt
  BY <1>6 DEF Apply!QuitPrompt, Apply!Actionable
<1>7. CASE Apply!ResolveLocks
  BY <1>7 DEF Apply!ResolveLocks, Apply!Actionable, Apply!LockedFindings
<1>8. CASE Apply!WriteRules
  BY <1>8 DEF Apply!WriteRules, Apply!Actionable
<1>9. CASE Apply!WriteNext
  <2>1. Apply!Foremost \in todo
    BY <1>9, SomeFindingIsForemost DEF Apply!WriteNext
  <2> QED
    BY <1>9, <2>1 DEF Apply!WriteNext, Apply!Actionable
<1>10. CASE Apply!Finish
  BY <1>10 DEF Apply!Finish, Apply!RulesDone, Apply!run, Apply!report, Apply!Actionable
<1>11. CASE Apply!Killed
  BY <1>11 DEF Apply!Killed
<1>12. CASE Apply!Edit
  BY <1>12 DEF Apply!Edit, Apply!run, Apply!report, Apply!Actionable, AnsweredGroups, Apply!Group
<1> QED
  BY <1>1, <1>2, <1>3, <1>4, <1>5, <1>6, <1>7, <1>8, <1>9, <1>10, <1>11, <1>12
  DEF Apply!Next

\* Nothing is found at first.
LEMMA FlowStarts == Apply!Init => FlowInv
<1> SUFFICES ASSUME Apply!Init PROVE FlowInv
  OBVIOUS
<1>1. appliedRepo \in Apply!RepoState /\ ApplyRuns \in Nat /\ ApplyEdits \in Nat
  BY ApplyAssumption DEF Apply!FlowAssumption, Apply!ReposAssumption, Apply!Init
<1>2. Apply!TypeOK
  <2>1. /\ applyPc = "idle" /\ mode \in Apply!Mode /\ group \in 1..3
        /\ accepted = {} /\ lifts = {} /\ todo = {} /\ applied = {} /\ skipped = {}
        /\ errors = {} /\ written = {} /\ locked = {} /\ quit = FALSE
    BY DEF Apply!Init, Apply!Idle, Apply!Mode
  <2>2. record \in BOOLEAN
    BY DEF Apply!Init
  <2>3. found \in [Apply!Finding -> Apply!Status]
    BY DEF Apply!Init, Apply!Idle, Apply!Status
  <2>4. runsApplied \in 0..ApplyRuns /\ editsApplied \in 0..ApplyEdits
    BY <1>1 DEF Apply!Init
  <2> QED
    BY <1>1, <2>1, <2>2, <2>3, <2>4 DEF Apply!TypeOK
<1>3. AccountInv
  BY DEF AccountInv, EveryFindingIsReported, Apply!EveryFindingIsReported, Apply!Init,
         Apply!Idle, Apply!SkippedInName
<1> QED
  BY <1>2, <1>3 DEF FlowInv

\* A step of another component leaves it all.
LEMMA FlowStutters == FlowInv /\ UNCHANGED Apply!vars => FlowInv'
BY DEF FlowInv, AccountInv, EveryFindingIsReported, Apply!EveryFindingIsReported, Apply!TypeOK,
       Apply!SkippedInName, Apply!vars, Apply!run, Apply!report, Apply!Actionable,
       AnsweredGroups, Apply!Group

\* The command's state keeps its types, and its lists account for the findings.
THEOREM FlowInvariant == Apply!Spec => []FlowInv
<1>1. FlowInv /\ [Apply!Next]_(Apply!vars) => FlowInv'
  BY FlowTypes, FlowAccounts, FlowStutters DEF FlowInv
<1> QED
  BY FlowStarts, <1>1, PTL DEF Apply!Spec

\* Whatever the mode, the answers, the locks and the writers that fail, a run of
\* dev-genie-init that ends has each finding among the applied, the skipped or the
\* errors and in only one of them, but for those that are written although they were
\* skipped, and nothing else (the three lists of applyFindings).
THEOREM FindingsAreReported == Apply!Spec => []EveryFindingIsReported
<1>1. FlowInv => EveryFindingIsReported
  BY DEF FlowInv, AccountInv
<1> QED
  BY <1>1, FlowInvariant, PTL

\* What of package.json is the user's is never replaced, by no writer of the command
\* and at no interleaving with the user's edits (the writers read again).
THEOREM OwnEntriesAreKept == Apply!Spec => OwnEntriesSurvive
<1>1. FlowInv /\ [Apply!Next]_(Apply!vars) =>
        [OwnKept(appliedRepo, appliedRepo')]_(Apply!vars)
  BY StepFollows DEF Follows
<1> QED
  BY <1>1, FlowInvariant, PTL DEF Apply!Spec, OwnEntriesSurvive, Apply!OwnEntriesSurvive, OwnKept
=============================================================================
