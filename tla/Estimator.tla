----------------------------- MODULE Estimator ------------------------------
(***************************************************************************)
(* Pre-flight cost estimation, estimator.py.  Money is counted in tenths   *)
(* of a micro-dollar, in which every price per token is an integer; what   *)
(* the code rounds to four decimals is rounded to multiples of Step.       *)
(* Confidence and reason codes are labels and left out.                    *)
(***************************************************************************)
EXTENDS Integers

Step == 1000
Rounded(x) == ((x + Step \div 2) \div Step) * Step

(* Price per token; a model the table does not know is priced as Sonnet. *)
Pricing(model) ==
  CASE model = "opus" -> [input |-> 150, output |-> 750]
    [] model = "haiku" -> [input |-> 8, output |-> 40]
    [] OTHER -> [input |-> 30, output |-> 150]

InputTokensPerTurn == 4000
OutputTokensPerTurn == 1500
HaikuCallCost == 20000
CharsPerToken == 4

Larger(x, y) == IF x > y THEN x ELSE y

(* estimate_static: six tenths of the turns, what the prompt has above an  *)
(* average turn, and one Haiku call per addon.                             *)
EstimateStatic(model, turns, promptLength, addons) ==
  LET price == Pricing(model)
      extra == Larger(0, promptLength \div CharsPerToken - InputTokensPerTurn)
      input == price.input * ((InputTokensPerTurn * turns * 6) \div 10 + extra)
      output == price.output * ((OutputTokensPerTurn * turns * 6) \div 10)
  IN [input |-> Rounded(input), output |-> Rounded(output),
      total |-> Rounded(input + output + addons * HaikuCallCost)]

CostOfTurns(model, turns) ==
  turns * (Pricing(model).input * InputTokensPerTurn
            + Pricing(model).output * OutputTokensPerTurn)

(* estimate_model_assisted: model_max_usd, from the turns Haiku answers    *)
(* with and the addon cost that the rounded parts of the static estimate   *)
(* leave.                                                                  *)
ModelMax(model, answeredTurns, static) ==
  Rounded(CostOfTurns(model, answeredTurns)
            + static.total - (static.input + static.output))

(* A fault: the model's answer replaces the static estimate.               *)
SafetyRuleTrusting(staticTotal, modelMax) == modelMax

(* apply_safety_rule *)
SafetyRule(staticTotal, modelMax) ==
  IF modelMax > staticTotal THEN modelMax ELSE staticTotal

(* The gray zone starts at eight tenths of the cap. *)
GrayZone(total, cap) == 10 * total >= 8 * cap

(* The decision of run_budget_check *)
BudgetStatus(total, cap, failPolicy) ==
  IF total <= cap THEN "passed"
  ELSE CASE failPolicy = "warn" -> "warning"
         [] failPolicy = "require_approval" -> "requires_approval"
         [] OTHER -> "rejected"
=============================================================================
