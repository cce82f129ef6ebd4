----------------------------- MODULE Admission ------------------------------
(***************************************************************************)
(* One task from its request to the gates that are left when it has run:   *)
(* the checks of POST /tasks and of a retry (api/tasks.py), the approval   *)
(* of a budget gate (api/approvals.py), the secrets it is given, the diff  *)
(* that is captured of its work, and the rules that are evaluated again    *)
(* once its risk is known (runner/container.py).                           *)
(*                                                                         *)
(* The preset the task names is read anew at each of these points, and an  *)
(* administrator may save or delete it in between.  What other tasks and   *)
(* requests do to the row is in RunnerPool and Approvals.                  *)
(***************************************************************************)
EXTENDS Policy, Estimator, Risk

CONSTANTS Configs,       \* what an administrator may store as the preset
          Requests,      \* the requests that may be made
          Action,        \* the actions that may need approval
          Configured,    \* the secrets the server has a value for
          HasApiKey,     \* whether ANTHROPIC_API_KEY is set
          Answers,       \* turns Haiku may answer with
          Costs,         \* what a run may turn out to cost
          Trees,         \* what the agent may leave in the worktree
          MaxEdits       \* bound on changes of the preset

(* Numbers are numbers, lists are lists, None, Odd and the texts that are  *)
(* numbers are neither, and the request is one its pydantic model accepts; *)
(* a preset may hold a value of the wrong type anywhere, and such a text   *)
(* for a number.                                                           *)
ASSUME AdmissionAssumption ==
  /\ None \notin Int \cup {Odd} /\ Odd \notin Int
  /\ None \notin [input : Int, output : Int, total : Int]
  /\ DOMAIN Number \cap (Int \cup {None, Odd}) = {}
  /\ \A text \in DOMAIN Number : Number[text] \in Int
  /\ \A c \in Configs, f \in GuardedFields :
       IF f \in NumericCeilingFields THEN c[f] \in Int \cup {None, Odd} \cup DOMAIN Number
       ELSE c[f] \notin DOMAIN Number
  /\ \A c \in Configs : \/ c["approval_rules"] \in {None, Odd}
                         \/ Len(c["approval_rules"]) \in Nat
  /\ \A c \in Configs, r \in Requests :
       None \notin {c["allowed_domains"], r.domains} => c["allowed_domains"] \cap r.domains # None
  /\ \A r \in Requests : /\ r.budget \in Int \cup {None} /\ r.turns \in Int /\ r.length \in Int
                         /\ r.domains \notin DOMAIN Number \cup {Odd}
  /\ Answers \subseteq Int /\ MaxEdits \in Nat

VARIABLES preset,        \* the stored preset, None if there is none
          edits,
          request,       \* what the client asked for
          pc,            \* how far the task has come
          base,          \* the preset as the last resolution read it
          policy,        \* the effective policy of the last resolution
          static,        \* the static estimate, None before it is made
          total,         \* the effective estimate
          verdict,       \* the status of the budget check
          gates,         \* how each gate stands
          env,           \* the secrets in the container's environment
          recorded,      \* the rows of task_secrets: <<name, granted>>
          tree, git,     \* the worktree, and how the git calls ended
          found,         \* what the capture returned
          stored,        \* the files that diff.patch shows
          risk

budgetVars == <<static, total, verdict>>
runVars == <<env, recorded, tree, git, found, stored, risk>>
vars == <<preset, edits, request, pc, base, policy, budgetVars, gates, runVars>>

AllOk == [diff |-> "ok", cached |-> "ok", list |-> "ok", each |-> "ok"]

Init ==
  /\ preset \in Configs \cup {None} /\ edits = 0
  /\ request \in Requests
  /\ pc = "new" /\ base = NoConfig /\ policy = NoConfig
  /\ static = None /\ total = None /\ verdict = "none"
  /\ gates = [a \in Action |-> "none"]
  /\ env = {} /\ recorded = {}
  /\ tree = [f \in Files |-> "clean"] /\ git = AllOk
  /\ found = [files |-> {}, warned |-> FALSE] /\ stored = {} /\ risk = None

----------------------------------------------------------------------------
(* Policy presets API *)

SavePreset ==
  /\ edits < MaxEdits
  /\ preset' \in Configs \ {preset} /\ edits' = edits + 1
  /\ UNCHANGED <<request, pc, base, policy, budgetVars, gates, runVars>>

DeletePreset ==
  /\ edits < MaxEdits /\ preset # None
  /\ preset' = None /\ edits' = edits + 1
  /\ UNCHANGED <<request, pc, base, policy, budgetVars, gates, runVars>>

(* What a read of the task's preset returns. *)
Stored == IF ~request.named \/ preset = None THEN NoConfig ELSE preset

Resolved == EffectivePolicy(Stored, request)

(* resolve_effective_policy returns, and base and policy remember it. *)
Resolve ==
  /\ Valid(Resolved)
  /\ base' = Stored /\ policy' = Resolved

----------------------------------------------------------------------------
(* Creation and retry *)

(* The checks before the row exists; a retry makes none. *)
Screen ==
  /\ pc = "new" /\ ~request.retry
  /\ pc' = IF /\ Valid(Stored)
              /\ RepoAllowed(Stored, request.repo)
              /\ BranchAllowed(Stored, request.branch)
           THEN "screened" ELSE "refused"
  /\ UNCHANGED <<preset, edits, request, base, policy, budgetVars, gates, runVars>>

(* The row is inserted, as queued. *)
Insert ==
  /\ pc = (IF request.retry THEN "new" ELSE "screened")
  /\ pc' = "inserted"
  /\ UNCHANGED <<preset, edits, request, base, policy, budgetVars, gates, runVars>>

(* The least cap of the policy and the task.  The policy's already is one  *)
(* unless the preset's was a text.                                         *)
Cap(p) == IF p["max_cost_usd"] = None THEN request.budget
          ELSE IF request.budget = None THEN p["max_cost_usd"]
          ELSE Least(p["max_cost_usd"], request.budget)

TitleAndSummary == IF HasApiKey THEN 2 ELSE 0

(* The policy is resolved and, with a cap, the task is estimated.          *)
Estimate ==
  /\ pc = "inserted" /\ Resolve
  /\ LET cap == Cap(policy')
         est == EstimateStatic(request.model, request.turns, request.length,
                               TitleAndSummary)
     IN IF cap = None
        THEN pc' = "passed" /\ UNCHANGED budgetVars
        ELSE /\ static' = est /\ total' = est.total
             /\ pc' = IF HasApiKey /\ GrayZone(est.total, cap) THEN "asking" ELSE "estimated"
             /\ UNCHANGED verdict
  /\ UNCHANGED <<preset, edits, request, gates, runVars>>

(* The preset is no longer valid: the handler raises, the row stays.       *)
EstimateRaises ==
  /\ pc = "inserted" /\ ~Valid(Resolved)
  /\ pc' = "stranded"
  /\ UNCHANGED <<preset, edits, request, base, policy, budgetVars, gates, runVars>>

(* Haiku answers, or fails to. *)
ModelAnswers ==
  /\ pc = "asking"
  /\ \/ \E turns \in Answers :
          total' = SafetyRule(static.total, ModelMax(request.model, turns, static))
     \/ UNCHANGED total
  /\ pc' = "estimated"
  /\ UNCHANGED <<preset, edits, request, base, policy, static, verdict, gates, runVars>>

Decide ==
  /\ pc = "estimated"
  /\ verdict' = BudgetStatus(total, Cap(policy), policy["budget_fail_policy"])
  /\ pc' = CASE verdict' = "rejected" -> "rejected"
             [] verdict' = "requires_approval" -> "parked"
             [] OTHER -> "passed"
  /\ UNCHANGED <<preset, edits, request, base, policy, static, total, gates, runVars>>

----------------------------------------------------------------------------
(* create_required_gates *)

Needs(p) == IF p["requires_approval_for"] = None THEN {} ELSE p["requires_approval_for"]

RulesOf(p) == IF p["approval_rules"] = None THEN <<>> ELSE p["approval_rules"]

RequiredGates(p, ctx) ==
  [a \in Action |->
     IF a \notin Needs(p) THEN "none"
     ELSE IF EvaluateRules(RulesOf(p), a, ctx) = "auto_approve" THEN "auto_before"
     ELSE "pending"]

(* What the rules are told of the task before it runs.                     *)
ContextBefore ==
  [risk |-> None, cost |-> total, secrets |-> request.secrets # {},
   repo |-> request.repo, preset |-> IF request.named THEN "preset" ELSE None]

(* After the run cost is the real one, and secrets are those of the row.   *)
ContextAfter(level, cost) ==
  [ContextBefore EXCEPT !.risk = level, !.cost = cost,
                        !.secrets = request.secrets # {} /\ ~request.retry]

(* What the approval of a budget gate tells them. *)
NoContext ==
  [risk |-> None, cost |-> None, secrets |-> FALSE, repo |-> None, preset |-> None]

CreateGates ==
  /\ pc = "passed"
  /\ gates' = RequiredGates(policy, ContextBefore)
  /\ pc' = "queued"
  /\ UNCHANGED <<preset, edits, request, base, policy, budgetVars, runVars>>

(* The budget gate is approved: the policy is resolved again.              *)
ApproveBudget ==
  /\ pc = "parked" /\ Resolve
  /\ gates' = RequiredGates(policy', NoContext)
  /\ pc' = "queued"
  /\ UNCHANGED <<preset, edits, request, budgetVars, runVars>>

(* It is approved, but the preset is no longer valid: the task stays       *)
(* parked, without a gate to approve.                                      *)
ApproveBudgetRaises ==
  /\ pc = "parked" /\ ~Valid(Resolved)
  /\ pc' = "stranded"
  /\ UNCHANGED <<preset, edits, request, base, policy, budgetVars, gates, runVars>>

----------------------------------------------------------------------------
(* The run *)

(* _inject_task_secrets; a retry's row declares no secrets.                *)
InjectSecrets ==
  /\ pc = "queued"
  /\ IF request.retry \/ request.secrets = {}
     THEN UNCHANGED <<base, policy, env, recorded>>
     ELSE /\ Resolve
          /\ env' = {s \in request.secrets : SecretAllowed(policy', s) /\ s \in Configured}
          /\ recorded' = {<<s, s \in env'>> : s \in request.secrets}
  /\ pc' = "running"
  /\ UNCHANGED <<preset, edits, request, budgetVars, gates, tree, git, found, stored, risk>>

(* The agent has worked; its diff is captured, and written to diff.patch,  *)
(* of which _write_artifact cuts what is above 50 MB.                      *)
Capture ==
  /\ pc = "running"
  /\ tree' \in Trees
  /\ git' \in [{"diff", "cached", "list", "each"} -> GitOutcome]
  /\ found' = CaptureDiff(tree', git')
  /\ stored' \in SUBSET found'.files
  /\ pc' = "collected"
  /\ UNCHANGED <<preset, edits, request, base, policy, budgetVars, gates, env, recorded, risk>>

(* evaluate_post_execution_rules on the gates that are still pending.      *)
Reevaluated(ctx) ==
  [a \in Action |->
     IF /\ gates[a] = "pending"
        /\ EvaluateRules(RulesOf(policy'), a, ctx) = "auto_approve"
     THEN "auto_after" ELSE gates[a]]

(* The result is recorded; the risk of what diff.patch shows is known if   *)
(* both files are there.                                                   *)
PostRules ==
  /\ pc = "collected" /\ Resolve
  /\ risk' \in IF policy'["approval_rules"] = None THEN {None}
               ELSE {None} \cup {RiskLevel(RiskReasons(stored, testsRun, blocked)) :
                                   testsRun \in BOOLEAN, blocked \in BOOLEAN}
  /\ \E cost \in Costs : gates' = Reevaluated(ContextAfter(risk', cost))
  /\ pc' = "done"
  /\ UNCHANGED <<preset, edits, request, budgetVars, env, recorded, tree, git, found, stored>>

(* It raises, as the preset is invalid or a file was cut where it cannot   *)
(* be parsed: caught, logged, and the gates stay as they are.              *)
PostRulesRaise ==
  /\ pc = "collected"
  /\ IF Valid(Resolved) THEN Resolve ELSE UNCHANGED <<base, policy>>
  /\ pc' = "done"
  /\ UNCHANGED <<preset, edits, request, budgetVars, gates, runVars>>

Next ==
  \/ SavePreset \/ DeletePreset
  \/ Screen \/ Insert \/ Estimate \/ EstimateRaises \/ ModelAnswers \/ Decide
  \/ CreateGates \/ ApproveBudget \/ ApproveBudgetRaises
  \/ InjectSecrets \/ Capture \/ PostRules \/ PostRulesRaise

AdmissionSpec == Init /\ [][Next]_vars

----------------------------------------------------------------------------
(* Properties *)

Resolutions == {"asking", "estimated", "passed", "rejected", "parked", "queued",
                "running", "collected", "done"}

(* Every variable keeps its type; in particular the model can only raise   *)
(* the estimate (apply_safety_rule, estimator.py:267).                     *)
AdmissionTypeOK ==
  /\ preset \in Configs \cup {None} /\ edits \in 0..MaxEdits /\ request \in Requests
  /\ pc \in {"new", "refused", "screened", "inserted", "stranded"} \cup Resolutions
  /\ base \in Configs \cup {NoConfig} /\ Valid(policy)
  /\ verdict \in {"none", "passed", "warning", "requires_approval", "rejected"}
  /\ IF static = None THEN total = None ELSE total >= static.total
  /\ gates \in [Action -> {"none", "pending", "auto_before", "auto_after"}]
  /\ env \subseteq request.secrets
  /\ found.files \subseteq Files /\ found.warned \in BOOLEAN /\ stored \subseteq found.files
  /\ risk \in {None, "low", "medium", "high"}

(* "Task-level overrides can only narrow access, never widen it."          *)
(* (policy.py:5), whatever the administrator makes of the preset between   *)
(* two resolutions; and a limit the task sets itself holds as well, except *)
(* where the preset's is a text such as "100": merge_policy keeps the text *)
(* and drops the task's number, and pydantic takes the text for a number   *)
(* (policy.py:100-105, 159).                                               *)
TaskNarrows ==
  pc \in Resolutions =>
    \A f \in GuardedFields :
      /\ AsStrict(f, policy[f], Parsed(base)[f])
      /\ base[f] \notin DOMAIN Number => AsStrict(f, policy[f], Overrides(request)[f])

(* A task that passed its budget check, by the static estimate and by the  *)
(* model's, keeps to the cap of the preset and to its own, a text as the   *)
(* preset's cap or not; one that was not checked has neither               *)
(* (api/tasks.py:111-114).                                                 *)
AdmittedWithinCaps ==
  pc \in {"passed", "queued"} /\ verdict \in {"none", "passed"} =>
    \A cap \in {Parsed(base)["max_cost_usd"], request.budget} \ {None} :
      verdict = "passed" /\ static.total <= cap

(* "Warnings about partial failures are included in the audit log so users *)
(* know if their diff is incomplete" (executor.py:363): without one, every *)
(* change that is not committed is in the diff that is returned.  An exit  *)
(* code of ls-files or of an untracked file's diff raises no warning and   *)
(* is excepted; nor does the cut of diff.patch, which comes later.         *)
UnwarnedDiffIsComplete ==
  pc = "collected" /\ ~found.warned /\ "error" \notin {git.list, git.each} =>
    Uncommitted(tree) \subseteq found.files

ShowsCIChange ==
  \E f \in stored : "ci" \in Traits[f] /\ "tests" \notin Traits[f]

(* A gate is not approved by a rule after a run whose diff.patch shows a   *)
(* change of the CI configuration, if all rules that approve ask for a     *)
(* lower risk (risk.py:259).  A path that also matches a test pattern      *)
(* counts as a test (risk.py:15-17) and is excepted.                       *)
CIChangeKeepsGate ==
  \A a \in Action :
    gates[a] = "auto_after" /\ ShowsCIChange =>
      \E i \in 1..Len(RulesOf(policy)) :
        /\ RulesOf(policy)[i].condition = "auto_approve"
        /\ RulesOf(policy)[i].action \in {"*", a}
        /\ \A p \in RulesOf(policy)[i].when :
             p.key = "risk_level" => "high" \in p.value

(* "conditional auto-approve/require-approval based on risk level, cost,   *)
(* secrets, repo patterns" (README.md:59): a gate that is approved before  *)
(* the run is one the rules approve for what the task is.                  *)
RulesSeeTheTask ==
  pc = "queued" =>
    \A a \in Action : gates[a] = "auto_before" =>
      EvaluateRules(RulesOf(policy), a, ContextBefore) = "auto_approve"
=============================================================================
