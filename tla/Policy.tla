------------------------------- MODULE Policy -------------------------------
(***************************************************************************)
(* The policy engine of policy.py: how a preset and the settings of a task *)
(* merge, and what the merged policy says of a secret, a repository, a     *)
(* branch and an action that may need approval.                            *)
(*                                                                         *)
(* A configuration maps every field of PolicyPresetConfig to a value, or   *)
(* to None: a missing key and a null are the same to merge_policy.  The    *)
(* endpoint that saves a preset takes any JSON object.  Odd stands for a   *)
(* value pydantic refuses: a list for a number, or a null for              *)
(* allow_pr_creation or pr_only.  Number has the texts it takes for a      *)
(* number, such as "100", which merge_policy takes for none.  A value of   *)
(* a field no task overrides is what pydantic makes of it.  Lists are      *)
(* sets, a URL pattern is the set of the repositories that start with it.  *)
(***************************************************************************)
EXTENDS Integers, Sequences

CONSTANTS None, Odd,
          Number         \* the texts pydantic takes for numbers, to the numbers

AllowlistFields == {"allowed_commands", "allowed_write_paths", "allowed_domains",
                    "allowed_secrets", "allowed_repos"}
DenylistFields == {"blocked_branches", "requires_approval_for"}
NumericCeilingFields == {"max_turns", "max_cost_usd", "timeout_s"}
RestrictiveBoolFields == {"pr_only"}
PermissiveBoolFields == {"allow_pr_creation"}
OtherFields == {"model", "budget_fail_policy", "approval_rules"}

GuardedFields == AllowlistFields \cup DenylistFields \cup NumericCeilingFields
                   \cup RestrictiveBoolFields \cup PermissiveBoolFields
Fields == GuardedFields \cup OtherFields

NoConfig == [f \in Fields |-> None]

----------------------------------------------------------------------------
(* merge_policy *)

Least(m, n) == IF m < n THEN m ELSE n

(* A fault: an allowlist of the task adds to the preset's, a cap replaces  *)
(* it.                                                                     *)
NarrowByTask(f, p, t) ==
  CASE f \in AllowlistFields \cup DenylistFields -> p \cup t
    [] f \in NumericCeilingFields -> t
    [] f \in RestrictiveBoolFields -> p \/ t
    [] f \in PermissiveBoolFields -> p /\ t

Narrow(f, p, t) ==
  CASE f \in AllowlistFields -> p \cap t
    [] f \in DenylistFields -> p \cup t
    [] f \in NumericCeilingFields -> Least(p, t)
    [] f \in RestrictiveBoolFields -> p \/ t
    [] f \in PermissiveBoolFields -> p /\ t

MergedField(f, p, t) ==
  IF t = None THEN p
  ELSE IF p = None \/ f \in OtherFields THEN t
  ELSE IF {p, t} \cap (DOMAIN Number \cup {Odd}) # {} THEN p
  ELSE Narrow(f, p, t)

MergePolicy(preset, overrides) ==
  [f \in Fields |-> MergedField(f, preset[f], overrides[f])]

(* PolicyPresetConfig(...) makes a number of a text that is one ...        *)
Parsed(config) ==
  [f \in Fields |-> IF f \in NumericCeilingFields /\ config[f] \in DOMAIN Number
                    THEN Number[config[f]] ELSE config[f]]

(* ... and raises for a value it has no use for. *)
Valid(config) == \A f \in Fields : config[f] # Odd

(* resolve_effective_policy: an unknown preset counts as none. *)
Overrides(task) ==
  [NoConfig EXCEPT !["allowed_domains"] = task.domains,
                   !["max_cost_usd"] = task.budget,
                   !["max_turns"] = task.turns]

EffectivePolicy(preset, task) == Parsed(MergePolicy(preset, Overrides(task)))

(* v is at least as restrictive as w in field f. *)
AsStrict(f, v, w) ==
  w = None \/ /\ v # None
              /\ CASE f \in AllowlistFields -> v \subseteq w
                   [] f \in DenylistFields -> w \subseteq v
                   [] f \in NumericCeilingFields -> v <= w
                   [] f \in RestrictiveBoolFields -> w => v
                   [] f \in PermissiveBoolFields -> v => w

----------------------------------------------------------------------------
(* What a policy allows *)

SecretAllowed(policy, s) ==
  policy["allowed_secrets"] = None \/ s \in policy["allowed_secrets"]

(* A pattern allows the repositories that start with it. *)
RepoAllowed(policy, repo) ==
  \/ policy["allowed_repos"] = None
  \/ \E pattern \in policy["allowed_repos"] : repo \in pattern

BranchAllowed(policy, branch) ==
  \/ branch = None \/ policy["blocked_branches"] = None
  \/ branch \notin policy["blocked_branches"]

----------------------------------------------------------------------------
(* Approval rules: [action, when, condition] in the order they are listed; *)
(* when is a set of predicates [key, value], about a context               *)
(* [risk, cost, secrets, repo, preset].                                    *)

PredicateHolds(p, ctx) ==
  CASE p.key = "risk_level" -> ctx.risk # None /\ ctx.risk \in p.value
    [] p.key = "predicted_cost_below" -> ctx.cost # None /\ ctx.cost < p.value
    [] p.key = "has_secrets" -> ctx.secrets = p.value
    [] p.key = "repo_matches" -> ctx.repo \in p.value
    [] p.key = "preset" -> ctx.preset = p.value
    [] OTHER -> TRUE

PredicatesMatch(when, ctx) == \A p \in when : PredicateHolds(p, ctx)

Applies(rule, action, ctx) ==
  /\ rule.action \in {"*", action}
  /\ PredicatesMatch(rule.when, ctx)
  /\ rule.condition \in {"auto_approve", "require_approval"}

EvaluateRules(rules, action, ctx) ==
  LET matching == {i \in 1..Len(rules) : Applies(rules[i], action, ctx)}
  IN IF matching = {} THEN "no_match"
     ELSE rules[CHOOSE i \in matching : \A j \in matching : i <= j].condition
=============================================================================
