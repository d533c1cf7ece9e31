--------------------------- MODULE EconomicIdentity ---------------------------
(***************************************************************************)
(* lib/economic-identity.mjs: when economic.json and approval.json are     *)
(* valid, by themselves and for a mission and its run, and what the        *)
(* pipeline writes into economic.json after a run.                         *)
(*                                                                         *)
(* Formats, identifiers and enumerations of labels are left out: what is   *)
(* kept is what one field says about another.                              *)
(***************************************************************************)
EXTENDS Integers, Sequences, Functions, FiniteSetsExt, MissionRules

CONSTANT MaxScale  \* the most fraction digits a decimal string has

ASSUME DecimalAssumption == MaxScale \in Nat

-----------------------------------------------------------------------------
(* Decimal strings: an integer and the number of its fraction digits.       *)

Decimal(units, scale) == [units |-> units, scale |-> scale]
Decimals == [units : Nat, scale : 0..MaxScale]
Zero     == Decimal(0, 0)

\* Powers of ten.
Power[n \in Nat] == IF n = 0 THEN 1 ELSE 10 * Power[n - 1]

Total(numbers) ==
  LET upTo[i \in 0..Len(numbers)] == IF i = 0 THEN 0 ELSE upTo[i - 1] + numbers[i]
  IN upTo[Len(numbers)]

\* decimalParts and the common scale of sameDecimal: the units of d at scale s.
At(d, s) == d.units * Power[s - d.scale]

\* Mutant: each side is scaled by the other's digits.
SameSwapped(left, right) ==
  LET s == IF left.scale > right.scale THEN left.scale ELSE right.scale
  IN left.units * Power[s - right.scale] = right.units * Power[s - left.scale]

\* sameDecimal.
SameDecimal(left, right) ==
  LET s == IF left.scale > right.scale THEN left.scale ELSE right.scale
  IN At(left, s) = At(right, s)

SumEquals(expected, values) ==
  LET s == Max({expected.scale} \cup {values[i].scale : i \in DOMAIN values})
  IN SameDecimal(expected, Decimal(Total([i \in DOMAIN values |-> At(values[i], s)]), s))

ProductEquals(amount, quantity, rate) ==
  SameDecimal(amount, Decimal(quantity.units * rate.units, quantity.scale + rate.scale))

-----------------------------------------------------------------------------
(* Costs.                                                                   *)

Multiplied == {"calculated_from_usage", "standard_labor_cost"}
Unpriced   == {"observed_quantity_unpriced", "unavailable"}
Classes    == Multiplied \cup Unpriced \cup
              {"provider_billed", "provider_metered", "allocated_shared_cost"}

Amount    == Decimals \cup {None}
CostLines ==
  [ class : Classes, quantity : Amount, rate : Amount, amount : Amount,
    currency : STRING \cup {None}, card : BOOLEAN, method : BOOLEAN, billing : BOOLEAN,
    maintainer : BOOLEAN, cited : BOOLEAN ]
Costs ==
  [ lines : Seq(CostLines), status : {"partial", "complete"}, currency : STRING \cup {None},
    missing : BOOLEAN, direct : Amount, shared : Amount, human : Amount, total : Amount ]

\* validateCostLine.
ValidLine(line) ==
  /\ line.class \in Classes
  /\ line.class = "provider_billed" =>
       line.billing /\ None \notin {line.amount, line.currency}
  /\ line.class \in Multiplied =>
       /\ None \notin {line.quantity, line.rate, line.amount, line.currency}
       /\ line.card
       /\ ProductEquals(line.amount, line.quantity, line.rate)
  /\ line.class = "allocated_shared_cost" =>
       line.method /\ None \notin {line.amount, line.currency}
  /\ line.class \in Unpriced => line.rate = None /\ line.amount = None

\* The lines with an amount whose class is one of classes, and these amounts.
Priced(lines, classes) ==
  {i \in DOMAIN lines : lines[i].amount # None /\ lines[i].class \in classes}
Amounts(lines, classes) ==
  [i \in DOMAIN lines |-> IF i \in Priced(lines, classes) THEN lines[i].amount ELSE Zero]

Shared == {"allocated_shared_cost"}
Human  == {"standard_labor_cost"}
Direct == Classes \ (Shared \cup Human)

\* A subtotal is there when it has lines, and is their sum.
SubtotalFits(subtotal, lines, classes) ==
  /\ subtotal = None => Priced(lines, classes) = {}
  /\ subtotal # None => SumEquals(subtotal, Amounts(lines, classes))

Subtotals(costs) == <<costs.direct, costs.shared, costs.human>>

\* The rules of costs.
ValidCosts(costs) ==
  /\ \A i \in DOMAIN costs.lines :
       /\ ValidLine(costs.lines[i])
       /\ costs.lines[i].amount # None => costs.lines[i].currency = costs.currency
  /\ costs.missing => costs.total = None /\ costs.status = "partial"
  /\ Range(Append(Subtotals(costs), costs.total)) # {None} => costs.currency # None
  /\ SubtotalFits(costs.direct, costs.lines, Direct)
  /\ SubtotalFits(costs.shared, costs.lines, Shared)
  /\ SubtotalFits(costs.human, costs.lines, Human)
  /\ costs.total # None =>
       /\ None \notin Range(Subtotals(costs))
       /\ SumEquals(costs.total, Subtotals(costs))
  /\ costs.status = "complete" => None \notin Range(Append(Subtotals(costs), costs.total))

-----------------------------------------------------------------------------
(* The task, its attempts and the usage of the run.                         *)

\* attempt_lineage: the attempts are numbered from 1 without a gap, and the
\* current one is the last.
ValidLineage(e) ==
  /\ Range(e.attempts) = 1..Len(e.attempts)
  /\ e.attempt = Len(e.attempts)

Larger(a, b) == IF a > b THEN a ELSE b

\* usage.verification: nothing is negative; before the run nothing is known.
ValidUsage(usage) == \A field \in DOMAIN usage : usage[field] # None => usage[field] >= 0
Unknown == [elapsed |-> None, setup |-> None, declared |-> None, rest |-> None]

Measured == Nat \cup {None}
Usages   == [elapsed : Measured, setup : Measured, declared : Measured, rest : Measured]

\* What the format of economic.json lets through.
EconomicRecords ==
  [ issue : STRING, checks : Nat, attempts : Seq(Nat \ {0}), attempt : Nat \ {0},
    snapshot : STRING, cap : Amount, usage : Usages, costs : Costs ]

Elapsed(run) == run.finished - run.started

\* Mutant: what is left over may be negative.
UsageBelowZero(run) ==
  [elapsed |-> Larger(0, Elapsed(run)), setup |-> run.setup, declared |-> run.declared,
   rest |-> Larger(0, Elapsed(run)) - run.declared - run.setup]

\* The usage finalizeEconomicIdentity computes from a run record.  The executor
\* measures neither CPU time nor memory, so that it is always partial.
UsageOf(run) ==
  [elapsed |-> Larger(0, Elapsed(run)), setup |-> run.setup, declared |-> run.declared,
   rest |-> Larger(0, Larger(0, Elapsed(run)) - run.declared - run.setup)]

Finalize(e, run) == [e EXCEPT !.usage = UsageOf(run)]

ValidAlone(e) == ValidLineage(e) /\ ValidUsage(e.usage) /\ ValidCosts(e.costs)

\* The first line about the payment of the maintainer says that there was none.
NothingWasPaid(costs) ==
  LET paid == SelectSeq(costs.lines, LAMBDA l : l.maintainer)
  IN paid # <<>> /\ Head(paid).class = "observed_quantity_unpriced"
     /\ Head(paid).quantity = Decimal(0, 0) /\ Head(paid).amount = None

\* validateEconomicIdentity for a mission.
FitsMission(e, m) ==
  /\ ValidAlone(e)
  /\ e.issue = m.issue
  /\ e.checks = Len(m.commands)
  /\ m.payment = "none" /\ ~m.contingent
  /\ NothingWasPaid(e.costs)

\* validateEconomicIdentity for a run.
FitsRun(e, run) ==
  e.usage = [elapsed |-> Elapsed(run), setup |-> run.setup, declared |-> run.declared,
             rest |-> Larger(0, Elapsed(run) - run.declared - run.setup)]

-----------------------------------------------------------------------------
(* approval.json.                                                           *)

\* validateApprovalRecord: it is for this task and its budget.
ApprovalFits(approval, e) == approval.issue = e.issue /\ approval.cap = e.cap

===============================================================================
