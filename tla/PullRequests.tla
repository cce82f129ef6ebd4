---------------------------- MODULE PullRequests ----------------------------
(***************************************************************************)
(* What happens to one task after its agent has ended: the post-execution  *)
(* approval rules of the runner (policy.py), approve, reject and           *)
(* clear-review, create-pr and approve-and-create-pr (api/prs.py) with the *)
(* git and gh commands they run (github.py), expiry of gates and deletion. *)
(*                                                                         *)
(* The row is completed or partial from the start, and no gate is created  *)
(* any more; how it got there is in SandboxRun and Approvals, and so is    *)
(* what requires_approval promises.  An action ends at an await: a store call, a  *)
(* git command, gh.  Those commands, the repository and GitHub are         *)
(* external; each command may fail.                                        *)
(***************************************************************************)
EXTENDS Naturals, FiniteSets

CONSTANTS
  Requests,  \* bound: requests in a behaviour
  Action,    \* the actions the policy gates
  Calls      \* the endpoints clients call

ASSUME PullRequestsAssumption ==
  /\ "create_pr" \in Action
  /\ Calls \subseteq {"create-pr", "approve-and-create-pr", "approve", "reject", "clear-review",
                      "delete"}

VARIABLES
  row,     \* the task's row: status, review_required, requires_approval
  gate,    \* action -> its row in approval_gates ("none": no row)
  due,     \* pending gates whose expires_at has passed
  auto,    \* the runner after its final write: evaluate_post_execution_rules
  req,     \* request -> its handler
  repo,    \* "local" or "remote" (a clone per request)
  diff,    \* diff.patch
  refs,    \* branches in the local repository
  origin,  \* branches pushed to the origin
  opened   \* history: request -> gh opened a pull request for it

rowVars == <<row, gate, due>>
gitVars == <<refs, origin, opened>>
pvars == <<rowVars, auto, req, repo, diff, gitVars>>

Fetched == row.status # "deleted"
Undecided == {a \in Action : gate[a] = "pending"}
HasPending == Undecided \ due # {}

(* update_task does nothing to a row that is gone.                         *)
SetFlag(b) == row' = IF Fetched THEN [row EXCEPT !.flag = b] ELSE row
SetReview(b) == row' = IF Fetched THEN [row EXCEPT !.review = b] ELSE row

(* get_approval_gates rejects what is overdue, then reads.                 *)
ExpiredAsSuch ==   \* fault: a status of its own, which nobody knows
  [a \in Action |-> IF a \in Undecided /\ a \in due THEN "expired" ELSE gate[a]]

Expired == [a \in Action |-> IF a \in Undecided /\ a \in due THEN "rejected" ELSE gate[a]]

(* decide_approval_gate is a compare-and-set.                              *)
Decided(a, d) == IF gate[a] = "pending" THEN [gate EXCEPT ![a] = d] ELSE gate

-----------------------------------------------------------------------------
(* Handlers.  `saw` is the create_pr gate as last read.                    *)
Idle == [call |-> "none", at |-> "idle", saw |-> "none"]

Goes(r, at) == req' = [req EXCEPT ![r].at = at]
Ends(r) == req' = [req EXCEPT ![r].at = "over"]

Opening == {"create-pr", "approve-and-create-pr"}

(* A request arrives; the row is there, and in a status its endpoint takes.*)
Arrive(r, call) ==
  /\ req[r].at = "idle"
  /\ call \in Calls
  /\ Fetched
  /\ call = "clear-review" => row.status = "partial"
  /\ req' = [req EXCEPT ![r] =
       [call |-> call, saw |-> "none",
        at |-> CASE call \in Opening ->
                      IF row.status = "partial" /\ row.review THEN "review" ELSE "gates"
                 [] call = "clear-review" -> "cleared"
                 [] call = "delete" -> "delete"
                 [] OTHER -> "decide"]]
  /\ UNCHANGED <<rowVars, auto, repo, diff, gitVars>>

(* A partial task under review needs an approved create_pr gate.           *)
CheckReview(r) ==
  /\ req[r].at = "review"
  /\ gate' = Expired
  /\ IF Expired["create_pr"] = "approved" THEN Goes(r, "gates") ELSE Ends(r)
  /\ UNCHANGED <<row, due, auto, repo, diff, gitVars>>

CheckNoPending(r) ==   \* fault: only a rejected gate holds create-pr back
  /\ req[r].at = "gates"
  /\ gate' = Expired
  /\ req' = [req EXCEPT ![r].at = IF Expired["create_pr"] = "rejected" THEN "over" ELSE "files",
                        ![r].saw = IF req[r].call = "create-pr" THEN "none" ELSE "pending"]
  /\ UNCHANGED <<row, due, auto, repo, diff, gitVars>>

(* Pending: 409, or, for approve-and-create-pr, decide it.  Rejected: 403. *)
CheckGates(r) ==
  LET g == Expired["create_pr"]
      next == CASE g = "rejected" -> "over"
                [] g = "pending" -> IF req[r].call = "create-pr" THEN "over" ELSE "decide"
                [] OTHER -> "files"
  IN /\ req[r].at = "gates"
     /\ gate' = Expired
     /\ req' = [req EXCEPT ![r].at = next, ![r].saw = g]
     /\ UNCHANGED <<row, due, auto, repo, diff, gitVars>>

(* approve, reject and approve-and-create-pr.  The first two stop with a   *)
(* 404 if the gate is not pending; the last goes on without looking.       *)
Decide(r, a) ==
  /\ req[r].at = "decide"
  /\ req[r].call = "approve-and-create-pr" => a = "create_pr"
  /\ gate' = Decided(a, IF req[r].call = "reject" THEN "rejected" ELSE "approved")
  /\ IF req[r].call = "approve-and-create-pr" \/ (req[r].call = "approve" /\ a \in Undecided)
       THEN Goes(r, "has") ELSE Ends(r)
  /\ UNCHANGED <<row, due, auto, repo, diff, gitVars>>

AfterFlag(r) == IF req[r].call = "approve" THEN "over" ELSE "files"

CheckPending(r) ==
  /\ req[r].at = "has"
  /\ Goes(r, IF HasPending THEN AfterFlag(r) ELSE "flag")
  /\ UNCHANGED <<rowVars, auto, repo, diff, gitVars>>

ClearFlag(r) ==
  /\ req[r].at = "flag"
  /\ SetFlag(FALSE)
  /\ Goes(r, AfterFlag(r))
  /\ UNCHANGED <<gate, due, auto, repo, diff, gitVars>>

ClearReview(r) ==
  /\ req[r].at = "cleared"
  /\ SetReview(FALSE)
  /\ Ends(r)
  /\ UNCHANGED <<gate, due, auto, repo, diff, gitVars>>

(* DELETE /tasks/{id}: the row, then the output directory.                 *)
Delete(r) ==
  /\ req[r].at = "delete"
  /\ row' = [row EXCEPT !.status = "deleted", !.review = FALSE, !.flag = FALSE]
  /\ diff' = "none"
  /\ Ends(r)
  /\ UNCHANGED <<gate, due, auto, repo, gitVars>>

-----------------------------------------------------------------------------
(* github.create_pr with the task as it was read.  The diff is read first; *)
(* then a clone or the local repository, with a worktree on a new branch.  *)
HeadPerRequest(r) == r   \* fault: the branch is named for the request
Head(r) == "task"        \* sandclaude/<task id>

ReadDiff(r) ==
  /\ req[r].at = "files"
  /\ IF diff = "full" THEN Goes(r, "branch") ELSE Ends(r)
  /\ UNCHANGED <<rowVars, auto, repo, diff, gitVars>>

(* `git worktree add -b` fails if the branch is there; a clone has its own *)
(* branches.                                                               *)
MakeBranch(r) ==
  /\ req[r].at = "branch"
  /\ \/ repo = "remote" /\ Goes(r, "push") /\ UNCHANGED refs
     \/ repo = "local" /\ Head(r) \notin refs /\ refs' = refs \union {Head(r)} /\ Goes(r, "push")
     \/ Ends(r) /\ UNCHANGED refs
  /\ UNCHANGED <<rowVars, auto, repo, diff, origin, opened>>

(* apply, commit and push.  A branch that is already on the origin and has *)
(* another commit is not overwritten.  Failing, the worktree goes and the  *)
(* local branch stays.                                                     *)
Push(r) ==
  /\ req[r].at = "push"
  /\ \/ Head(r) \notin origin /\ origin' = origin \union {Head(r)} /\ Goes(r, "gh")
     \/ Ends(r) /\ UNCHANGED origin
  /\ UNCHANGED <<rowVars, auto, repo, diff, refs, opened>>

(* gh is missing or fails, or the pull request is opened (it may yet time  *)
(* out and be reported as a failure).                                      *)
OpenPR(r) ==
  /\ req[r].at = "gh"
  /\ Ends(r)
  /\ \/ opened' = opened \union {r}
     \/ UNCHANGED opened
  /\ UNCHANGED <<rowVars, auto, repo, diff, refs, origin>>

-----------------------------------------------------------------------------
(* The runner, after its final write: the pending gates as read, those     *)
(* that the approval rules now approve, then the flag.                     *)
ListGates ==
  /\ auto.at = "list"
  /\ gate' = Expired
  /\ \E S \in SUBSET {a \in Action : Expired[a] = "pending"} :
       auto' = [at |-> IF S = {} THEN "over" ELSE "decide", todo |-> S]
  /\ UNCHANGED <<row, due, req, repo, diff, gitVars>>

AutoApprove(a) ==
  /\ auto.at = "decide"
  /\ a \in auto.todo
  /\ gate' = Decided(a, "approved")
  /\ auto' = [at |-> IF auto.todo = {a} THEN "has" ELSE "decide", todo |-> auto.todo \ {a}]
  /\ UNCHANGED <<row, due, req, repo, diff, gitVars>>

AutoCheck ==
  /\ auto.at = "has"
  /\ auto' = [auto EXCEPT !.at = IF HasPending THEN "over" ELSE "flag"]
  /\ UNCHANGED <<rowVars, req, repo, diff, gitVars>>

AutoClear ==
  /\ auto.at = "flag"
  /\ SetFlag(FALSE)
  /\ auto' = [auto EXCEPT !.at = "over"]
  /\ UNCHANGED <<gate, due, req, repo, diff, gitVars>>

(* expires_at passes.                                                      *)
BecomeDue(a) ==
  /\ a \in Undecided \ due
  /\ due' = due \union {a}
  /\ UNCHANGED <<row, gate, auto, req, repo, diff, gitVars>>

-----------------------------------------------------------------------------
(* What admission and the clients left: the gates of the policy, decided   *)
(* or not, and the flag, which may have been cleared under a pending gate. *)
DeliveryInit ==
  /\ gate \in [Action -> {"none", "pending", "approved", "rejected"}]
  /\ due = {}
  /\ \E s \in {"completed", "partial"}, flag \in BOOLEAN :
       row = [status |-> s, review |-> (s = "partial"), flag |-> flag]
  /\ auto = [at |-> "list", todo |-> {}]
  /\ req = [r \in Requests |-> Idle]
  /\ repo \in {"local", "remote"}
  /\ diff \in {"empty", "full"}
  /\ refs = {} /\ origin = {} /\ opened = {}

Handle(r) ==
  \/ CheckReview(r) \/ CheckGates(r) \/ CheckPending(r) \/ ClearFlag(r) \/ ClearReview(r)
  \/ Delete(r) \/ ReadDiff(r) \/ MakeBranch(r) \/ Push(r) \/ OpenPR(r)
  \/ \E a \in Action : Decide(r, a)

Rules == ListGates \/ AutoCheck \/ AutoClear \/ \E a \in Action : AutoApprove(a)

DeliveryNext ==
  \/ \E r \in Requests : Handle(r) \/ \E call \in Calls : Arrive(r, call)
  \/ Rules
  \/ \E a \in Action : BecomeDue(a)

DeliverySpec == DeliveryInit /\ [][DeliveryNext]_pvars

-----------------------------------------------------------------------------
Row == [status : {"completed", "partial", "deleted"}, review : BOOLEAN, flag : BOOLEAN]
Decision == {"none", "pending", "approved", "rejected"}
Handler ==
  [call : Calls \union {"none"},
   at : {"idle", "review", "gates", "decide", "has", "flag", "cleared", "delete", "files",
         "branch", "push", "gh", "over"},
   saw : Decision]

DeliveryTypeOK ==
  /\ row \in Row
  /\ gate \in [Action -> Decision] /\ due \subseteq Action
  /\ auto \in [at : {"list", "decide", "has", "flag", "over"}, todo : SUBSET Action]
  /\ req \in [Requests -> Handler]
  /\ repo \in {"local", "remote"} /\ diff \in {"none", "empty", "full"}
  /\ refs \subseteq {Head(r) : r \in Requests} /\ origin \subseteq {Head(r) : r \in Requests}
  /\ opened \subseteq Requests

(* One pull request per task, however often and at whatever moment clients *)
(* ask for it: neither endpoint remembers one, the branch does.            *)
AtMostOnePR == Cardinality(opened) <= 1

(* "The create-pr endpoint returns 409 if a create_pr gate is pending, 403 *)
(* if rejected" (V020_ARCHITECTURE.md:27), README.md:77 for partial tasks: *)
(* when a pull request is opened its gate is approved, or there is none    *)
(* and no review is due.  approve-and-create-pr does not look whether its  *)
(* own decision took: one that saw the gate pending may open in spite of a *)
(* rejection.                                                              *)
PRHonoursGates ==
  [][\A r \in opened' \ opened :
       \/ gate["create_pr"] = "approved"
       \/ gate["create_pr"] = "none" /\ ~row.review
       \/ req[r].call = "approve-and-create-pr" /\ req[r].saw = "pending"]_pvars
=============================================================================
