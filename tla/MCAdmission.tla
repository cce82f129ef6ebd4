---------------------------- MODULE MCAdmission -----------------------------
(* Instances of Admission for TLC.                                         *)
EXTENDS Admission, TLC

CONSTANTS hundred, dollar, s1, s2, local, remote, main, code, workflow, lock

TwoSecrets == {s1, s2}
ThreeFiles == {code, workflow, lock}

(* A handler, a CI workflow, a manifest with its lockfile.                 *)
FileTraits ==
  (code :> {}) @@ (workflow :> {"ci", "config"}) @@ (lock :> {"dependencies", "lockfile"})

Dollar == 10000000

Base == [action |-> "*", when |-> {}, condition |-> "auto_approve"]
When(key, value) == [key |-> key, value |-> value]

(* Approve what is low in risk, has no secrets and is cheap.               *)
SafeOnly ==
  <<[Base EXCEPT !.when = {When("has_secrets", TRUE)}, !.condition = "require_approval"],
    [Base EXCEPT !.when = {When("risk_level", {"low", "medium"}),
                           When("predicted_cost_below", Dollar)}],
    [Base EXCEPT !.when = {When("risk_level", {"high"})}, !.condition = "ask"],
    [Base EXCEPT !.action = "push", !.when = {When("tag", "x")}]>>

(* Approve what does not use secrets, in the local repository.             *)
NoSecrets ==
  <<[Base EXCEPT !.when = {When("has_secrets", TRUE)}, !.condition = "require_approval"],
    [Base EXCEPT !.when = {When("has_secrets", FALSE)}]>>

ByName ==
  <<[Base EXCEPT !.when = {When("preset", "preset"), When("repo_matches", {local})}]>>

Strict ==
  [NoConfig EXCEPT !["allowed_secrets"] = {s1}, !["allowed_domains"] = {"pypi"},
                   !["allowed_repos"] = {{local}}, !["blocked_branches"] = {main},
                   !["requires_approval_for"] = {"create_pr"}, !["max_turns"] = 10,
                   !["max_cost_usd"] = Dollar, !["budget_fail_policy"] = "require_approval",
                   !["approval_rules"] = NoSecrets, !["allow_pr_creation"] = TRUE]

Ruled ==
  [NoConfig EXCEPT !["requires_approval_for"] = {"create_pr", "push"},
                   !["approval_rules"] = SafeOnly, !["pr_only"] = FALSE]

Warning ==
  [NoConfig EXCEPT !["max_cost_usd"] = 2 * Dollar, !["budget_fail_policy"] = "warn",
                   !["requires_approval_for"] = {"create_pr"},
                   !["approval_rules"] = ByName, !["allowed_domains"] = {}]

Capped == [NoConfig EXCEPT !["max_cost_usd"] = Dollar, !["allowed_secrets"] = {}]

(* max_turns is a list. *)
Malformed == [Strict EXCEPT !["max_turns"] = Odd]

(* The texts "100" and "1.00", and a preset that gives its limits so.      *)
TwoTexts == (hundred :> 100) @@ (dollar :> Dollar)

Quoted == [Capped EXCEPT !["max_turns"] = hundred, !["max_cost_usd"] = dollar]

SixConfigs == {Strict, Ruled, Warning, Capped, Malformed, Quoted}

Plain ==
  [retry |-> FALSE, named |-> TRUE, model |-> "sonnet", turns |-> 30, length |-> 400,
   budget |-> None, domains |-> None, secrets |-> {}, repo |-> local, branch |-> None]

FiveRequests ==
  {Plain,
   [Plain EXCEPT !.secrets = {s1, s2}, !.turns = 50, !.domains = {"pypi", "npm"}],
   [Plain EXCEPT !.retry = TRUE, !.secrets = {s1}, !.budget = Dollar \div 2, !.length = 40000],
   [Plain EXCEPT !.repo = remote, !.branch = main, !.turns = 60, !.budget = 3 * Dollar],
   [Plain EXCEPT !.named = FALSE, !.model = "opus", !.budget = 3 * Dollar, !.secrets = {s2}]}

(* Turns that lower the estimate, raise it, and take it above every cap.   *)
ThreeAnswers == {1, 20, 200}

TwoCosts == {Dollar \div 10, 3 * Dollar}

SomeTrees ==
  {(code :> c) @@ (workflow :> w) @@ (lock :> l) :
     c \in {"clean", "unstaged", "staged"}, w \in {"clean", "untracked", "staged"},
     l \in {"clean", "committed", "untracked"}}
=============================================================================
