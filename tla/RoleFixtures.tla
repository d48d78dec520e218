---------------------------- MODULE RoleFixtures ----------------------------
(***************************************************************************)
(* The cases that come with the harness of the roles: for each, an answer    *)
(* that takes the place of a model's.                                        *)
(***************************************************************************)
\* The answers the harness has ready, and its cases.
Fixture(text, review) ==
  [payload |-> [text |-> text, review |-> review, requests |-> 0], review |-> review]
ArchitectFixture(text) == Fixture(text, FALSE)
PlannerFixture(text) == Fixture(text, FALSE)
QualityGovernorFixture(text) == Fixture(text, TRUE)

V1Cases(text) ==
  <<[role |-> "architect", artifact |-> ArchitectFixture(text), id |-> 1],
    [role |-> "planner", artifact |-> PlannerFixture(text), id |-> 2],
    [role |-> "quality_governor", artifact |-> QualityGovernorFixture(text), id |-> 3]>>
=============================================================================
