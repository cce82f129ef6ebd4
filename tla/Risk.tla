-------------------------------- MODULE Risk --------------------------------
(***************************************************************************)
(* What a task left behind and how risky it looks: the capture of the      *)
(* worktree's diff (executor.py) and the risk summary (risk.py).           *)
(*                                                                         *)
(* A file is known by the patterns its path matches: Traits[f] is a subset *)
(* of the categories and of {"sensitive", "lockfile"}.                     *)
(***************************************************************************)
EXTENDS Integers, Sequences, FiniteSets

CONSTANTS Files, Traits

----------------------------------------------------------------------------
(* _capture_diff *)

(* A changed file is one of these; what is committed, git diff no longer   *)
(* shows.                                                                  *)
ChangeKinds == {"clean", "unstaged", "staged", "untracked", "committed"}

(* How each git call ends: it returns 0, it returns an error, or it runs   *)
(* into its timeout (or raises).                                           *)
GitOutcome == {"ok", "error", "timeout"}

Changed(tree, kind) == {f \in Files : tree[f] = kind}

Uncommitted(tree) == {f \in Files : tree[f] \in {"unstaged", "staged", "untracked"}}

(* The calls in order: diff, diff --cached, ls-files, and a --no-index     *)
(* diff of each untracked file, all of which end like git.each here.  A    *)
(* timeout of one of the first three skips what follows.                   *)
Reached(git) ==
  [diff |-> TRUE,
   cached |-> git.diff # "timeout",
   list |-> "timeout" \notin {git.diff, git.cached},
   each |-> "timeout" \notin {git.diff, git.cached, git.list}]

Shown(git, call) == Reached(git)[call] /\ git[call] = "ok"

Untracked(tree, git) == IF Shown(git, "list") THEN Changed(tree, "untracked") ELSE {}

(* A fault: a call that returns an error raises no warning.                *)
WarnsOfTimeouts(tree, git) ==
  \/ \E call \in {"diff", "cached", "list"} : Reached(git)[call] /\ git[call] = "timeout"
  \/ Reached(git).each /\ git.each = "timeout" /\ Untracked(tree, git) # {}

(* Only the exit codes of the first two are looked at.                     *)
Warns(tree, git) ==
  \/ \E call \in {"diff", "cached"} : Reached(git)[call] /\ git[call] # "ok"
  \/ Reached(git).list /\ git.list = "timeout"
  \/ Reached(git).each /\ git.each = "timeout" /\ Untracked(tree, git) # {}

CaptureDiff(tree, git) ==
  [files |-> (IF Shown(git, "diff") THEN Changed(tree, "unstaged") ELSE {})
               \cup (IF Shown(git, "cached") THEN Changed(tree, "staged") ELSE {})
               \cup (IF Shown(git, "each") THEN Untracked(tree, git) ELSE {}),
   warned |-> Warns(tree, git)]

----------------------------------------------------------------------------
(* generate_risk_summary *)

(* The categories in the order _classify_file tries them. *)
Categories == <<"tests", "ci", "config", "docs", "dependencies">>

ClassifyFile(f) ==
  LET matching == {i \in 1..Len(Categories) : Categories[i] \in Traits[f]}
  IN IF matching = {} THEN "code"
     ELSE Categories[CHOOSE i \in matching : \A j \in matching : i <= j]

(* testsRun: a command ran tests;  blocked: a request was not allowed.     *)
RiskReasons(files, testsRun, blocked) ==
  LET has(trait) == \E f \in files : trait \in Traits[f]
      category(c) == \E f \in files : ClassifyFile(f) = c
  IN {r \in {"sensitive", "lockfiles", "ci", "blocked", "no_lockfile", "untested"} :
        CASE r = "sensitive" -> has("sensitive")
          [] r = "lockfiles" -> has("lockfile")
          [] r = "ci" -> category("ci")
          [] r = "blocked" -> blocked
          [] r = "no_lockfile" -> has("dependencies") /\ ~has("lockfile")
          [] r = "untested" -> ~testsRun /\ category("code")}

(* A fault: a change of the CI configuration is a reason like any other.   *)
RiskLevelByCount(reasons) ==
  CASE Cardinality(reasons) >= 3 -> "high"
    [] Cardinality(reasons) \in 1..2 -> "medium"
    [] reasons = {} -> "low"

RiskLevel(reasons) ==
  CASE Cardinality(reasons) >= 3 \/ "ci" \in reasons -> "high"
    [] Cardinality(reasons) \in 1..2 /\ "ci" \notin reasons -> "medium"
    [] reasons = {} -> "low"
=============================================================================
