--------------------------- MODULE MCMissionRecord ---------------------------
(***************************************************************************)
(* Instances of MissionRecord: one good input per kind of mission, inputs  *)
(* that differ from one of these in a field or two, and cost statements    *)
(* that differ from a complete one.                                        *)
(***************************************************************************)
EXTENDS MissionRecord

MCLower == [h \in {"c1", "c2", "C1", "p1", "p2", "P1", "b1"} |->
              CASE h = "C1" -> "c1" [] h = "P1" -> "p1" [] OTHER -> h]
MCRedacted == [c \in {"npm test", "curl token", " "} |->
                 IF c = "curl token" THEN "curl ***" ELSE c]

\* b1 is not UTF-8.
MCDecoded == [p \in {"p1", "p2", "b1"} |-> IF p = "b1" THEN "b1 decoded" ELSE p]
MCIssueOf ==
  [s \in {"first", "second", "untitled", "general"} |->
     CASE s = "first" -> "issue 1" [] s = "second" -> "issue 2"
       [] s = "untitled" -> None [] OTHER -> Absent]

-----------------------------------------------------------------------------
(* Missions.                                                                *)

Rehearsal ==
  [ bounty |-> FALSE, variant |-> "own_repo_rehearsal", tiers |-> {"R0"}, grade |-> "B0",
    label |-> "rehearsal", role |-> "both_sides_disclosed", counterparty |-> FALSE,
    consent |-> None, worker |-> TRUE, environment |-> TRUE, base |-> "c1",
    patchCommit |-> None, patch |-> None, commands |-> <<"npm test">>, issue |-> None,
    status |-> "pending", link |-> FALSE, payment |-> "none", contingent |-> FALSE,
    limitations |-> "whole", plain |-> TRUE, digest |-> None, uri |-> None ]

Verification ==
  [Rehearsal EXCEPT !.variant = "V", !.tiers = {}, !.grade = None, !.label = "other",
     !.role = "verifier", !.counterparty = TRUE, !.consent = "thread"]

Contribution ==
  [Verification EXCEPT !.variant = "author_contribution", !.label = "contributor",
     !.role = "worker_runtime_operator", !.consent = None, !.patch = "p1",
     !.patchCommit = "c2", !.issue = "issue 1"]

Input(mission) ==
  [ mission |-> mission, patch |-> IF mission.patch = None THEN None ELSE "p1",
    consent |-> IF mission.variant \in Consented
                  THEN [variant |-> mission.variant, artifact |-> "thread"] ELSE None,
    snapshot |-> None, economic |-> None, install |-> {"npm test"} ]

Plain == {Input(Rehearsal), Input(Verification), Input(Contribution)}

\* Inputs the gate, the run or CI refuses, each for a reason of its own.
Odd ==
  LET with(i, f, v) == [i EXCEPT !.mission[f] = v]
      r == Input(Rehearsal)
      v == Input(Verification)
      c == Input(Contribution)
  IN { with(r, "base", None), with(r, "variant", "V"), with(r, "tiers", {"R1"}),
       [r EXCEPT !.consent = v.consent],
       with(v, "label", "blank"), with(v, "variant", "F"), with(v, "consent", "other thread"),
       with(v, "worker", FALSE), [v EXCEPT !.consent = None],
       with(v, "tiers", {"R1"}),
       with(with(v, "variant", "author_contribution"), "label", "contributor"),
       with(c, "base", "C1"), with(c, "patch", "P1"), with(c, "commands", <<"curl token">>),
       with(c, "commands", <<>>), [c EXCEPT !.patch = "p2"],
       [with(c, "patch", None) EXCEPT !.mission.role = "funder"],
       with(r, "patch", Absent), with(r, "limitations", "short"), with(r, "limitations", "blank"),
       with(r, "commands", <<"npm test", " ">>), [r EXCEPT !.install = {" "}],
       [with(c, "patch", "b1") EXCEPT !.patch = "b1"], with(c, "patch", Absent),
       [r EXCEPT !.snapshot = "first"], [c EXCEPT !.snapshot = "general"],
       [c EXCEPT !.snapshot = "second"], [c EXCEPT !.snapshot = "untitled"] }

-----------------------------------------------------------------------------
(* Costs.                                                                   *)

Line(class, quantity, rate, amount) ==
  [ class |-> class, quantity |-> quantity, rate |-> rate, amount |-> amount,
    currency |-> IF amount = None THEN None ELSE "USD", card |-> TRUE, method |-> TRUE,
    billing |-> TRUE, maintainer |-> FALSE, cited |-> TRUE ]

NoPayment ==
  [Line("observed_quantity_unpriced", Decimal(0, 0), None, None) EXCEPT !.maintainer = TRUE]

\* 2.5 at 0.02, a metered 0.01, 1.5 hours at 2, and a share of 0.125.
Lines ==
  << NoPayment,
     Line("calculated_from_usage", Decimal(25, 1), Decimal(2, 2), Decimal(5, 2)),
     Line("provider_metered", None, None, Decimal(1, 2)),
     Line("standard_labor_cost", Decimal(15, 1), Decimal(2, 0), Decimal(30, 1)),
     Line("allocated_shared_cost", None, None, Decimal(125, 3)) >>

Complete ==
  [ lines |-> Lines, status |-> "complete", currency |-> "USD", missing |-> FALSE,
    direct |-> Decimal(6, 2), shared |-> Decimal(125, 3), human |-> Decimal(30, 1),
    total |-> Decimal(3185, 3) ]

Nothing ==
  [ lines |-> <<NoPayment>>, status |-> "partial", currency |-> None, missing |-> TRUE,
    direct |-> None, shared |-> None, human |-> None, total |-> None ]

\* An amount off by a power of ten, and what could follow from it: subtotals
\* and totals, right, written differently, and wrong.
Directs == {Decimal(6, 2), Decimal(501, 2), Decimal(51, 2), Decimal(5, 2)}
Humans  == {Decimal(3, 0), Decimal(30, 0), Decimal(3, 1), None}
Totals  == {Decimal(3185, 3), Decimal(31850, 4), Decimal(3185, 2), Decimal(8135, 3), Decimal(3635, 3),
            Decimal(3175, 3), Decimal(30185, 3), Decimal(485, 3), Decimal(185, 3), None}

Statements ==
  {Nothing, [Nothing EXCEPT !.missing = FALSE], [Nothing EXCEPT !.status = "complete"],
   [Complete EXCEPT !.missing = TRUE], [Complete EXCEPT !.currency = "EUR"],
   [Complete EXCEPT !.missing = TRUE, !.status = "partial"],
   [Complete EXCEPT !.missing = TRUE, !.status = "partial", !.total = None]} \cup
  {[Complete EXCEPT !.lines[2].amount = a, !.direct = d, !.total = t]
     : a \in {Decimal(5, 2), Decimal(500, 2), Decimal(5, 1), Decimal(5, 3)}, d \in Directs, t \in Totals} \cup
  {[Complete EXCEPT !.lines[4].amount = a, !.human = h, !.total = t]
     : a \in {Decimal(3, 0), Decimal(30, 0), Decimal(3, 1)}, h \in Humans, t \in Totals}

Economic(costs) ==
  [ issue |-> "issue 1", checks |-> 1, attempts |-> <<1>>, attempt |-> 1,
    snapshot |-> "first", cap |-> None, usage |-> Unknown, costs |-> costs ]

Costed(e) == [Input(Contribution) EXCEPT !.snapshot = "first", !.economic = e]

\* The others are about the task, not the costs.
Accounts ==
  {Costed(Economic(costs)) : costs \in Statements} \cup
  LET e == Economic(Nothing)
  IN {Costed(f) : f \in {[e EXCEPT !.attempts = <<1, 2>>],
                         [e EXCEPT !.attempts = <<1, 2>>, !.attempt = 2],
                         [e EXCEPT !.attempts = <<1, 3>>, !.attempt = 2],
                         [e EXCEPT !.checks = 2], [e EXCEPT !.issue = "issue 2"],
                         [e EXCEPT !.costs.lines[1].cited = FALSE],
                         [e EXCEPT !.costs.lines[1].quantity = Decimal(1, 0)]}} \cup
     {[Costed(e) EXCEPT !.snapshot = None], [Costed(e) EXCEPT !.snapshot = "second"]}

\* Set back, and moving, but by less than the parts of a run take.
MCDurations == {-1, 1}

-----------------------------------------------------------------------------
(* What is done to a published mission.                                     *)

\* The second is what mission.json is after a run.
Rerunnable == {Costed(Economic(Nothing)), [Input(Verification) EXCEPT !.mission.digest = 1]}
MCInputs == Plain \cup Odd \cup Accounts \cup Rerunnable

\* Before a pull request, two states of one that is well-formed, and a mistake.
Requests ==
  {[state |-> s, head |-> h, drift |-> d, end |-> e] :
     <<s, h, d, e>> \in {<<"prepared", None, FALSE, None>>, <<"open", "c2", FALSE, None>>,
                         <<"merged", "c1", TRUE, "merged">>, <<"merged", "c2", FALSE, None>>}}

Changes ==
  {<<"variant", "W">>, <<"consent", "other thread">>, <<"base", "c2">>, <<"patch", "p2">>,
   <<"status", "approved">>, <<"uri", Elsewhere>>}

===============================================================================
