----------------------------- MODULE Approvals -----------------------------
(***************************************************************************)
(* Admission and approval gates on top of the runner pool: the create      *)
(* handler between its INSERT and submit_task (budget check, budget gate,  *)
(* the gates the policy asks for), the approve and reject handlers that    *)
(* race with it and with the pool, and the expiry of gates.                *)
(*                                                                         *)
(* As in RunnerPool, an action ends at an await: one transaction of the    *)
(* store.  Verdict and Gated are the results of the budget check and of    *)
(* the policy; how they are computed is not modelled here, only that       *)
(* resolving the policy may raise, when the preset was made invalid after  *)
(* the task was accepted (Breaks).                                         *)
(***************************************************************************)
EXTENDS RunnerPool

CONSTANTS
  Verdict,   \* task -> what run_budget_check may say of it
  Gated,     \* the policy's requires_approval_for list
  Requests,  \* bound: create, approve and reject requests in progress
  Calls,     \* what clients call besides POST /tasks
  Expires,   \* may gates expire (approval_expiry_s > 0)
  Breaks     \* may an administrator make the preset invalid meanwhile

Budget == "budget_exceeded"
Action == {Budget} \union {Gated[i] : i \in DOMAIN Gated}

ASSUME ApprovalsAssumption ==
  /\ Verdict \in [Task -> (SUBSET {"passed", "rejected", "requires_approval"}) \ {{}}]
  /\ Gated \in Seq(STRING)
  /\ Calls \subseteq {"approve", "reject"}
  /\ Expires \in BOOLEAN
  /\ Breaks \in BOOLEAN

VARIABLES
  gate,   \* task -> action -> its row in approval_gates ("none": no row)
  due,    \* task -> pending gates whose expires_at has passed
  flag,   \* task -> requires_approval column
  req     \* request -> what its handler is suspended at

gateVars == <<gate, due, flag, req>>
avars == <<vars, gateVars>>

(* A handler's await, and the locals that outlive it: the task, the action *)
(* decided, the next gate to create, and a remembered truth value.         *)
Idle == [call |-> "none", at |-> "idle", task |-> 1, action |-> Budget,
         next |-> 1, made |-> FALSE]

At == {"idle", "gates", "auto", "budget", "park", "discard", "decide", "refetch",
       "list", "still", "resume", "reread", "has", "clear", "fail", "raised"}

Goes(r, at) == req' = [req EXCEPT ![r].at = at]
Ends(r) == req' = [req EXCEPT ![r] = Idle]
Starts(r, call, at, t, a) ==
  /\ req[r].at = "idle"
  /\ mode = "serving"
  /\ req' = [req EXCEPT ![r] = [call |-> call, at |-> at, task |-> t, action |-> a,
                                next |-> 1, made |-> FALSE]]

Creating(t) == \E r \in Requests : req[r].call = "create" /\ req[r].task = t

-----------------------------------------------------------------------------
(* db/store.py on the approval_gates table.  Nothing deletes gates: the    *)
(* cascade of the schema is inert (foreign_keys is never switched on).     *)
Insert(t, a) == gate' = [gate EXCEPT ![t][a] = "pending"]

(* decide_approval_gate: compare-and-set, whatever expires_at says.        *)
OverDecided(t, a) == gate[t][a] # "none"   \* fault: decides a decided gate
Decidable(t, a) == gate[t][a] = "pending"

Decide(t, a, d) ==
  gate' = IF Decidable(t, a) THEN [gate EXCEPT ![t][a] = d] ELSE gate

(* get_approval_gates rejects what has expired before it reads.            *)
Expire(t) ==
  gate' = [gate EXCEPT ![t] = [a \in Action |->
             IF gate[t][a] = "pending" /\ a \in due[t] THEN "rejected" ELSE gate[t][a]]]

HasPending(t) == \E a \in Action \ due[t] : gate[t][a] = "pending"

SetFlag(t, b) == flag' = IF Row(t) THEN [flag EXCEPT ![t] = b] ELSE flag

-----------------------------------------------------------------------------
(* POST /tasks: the INSERT, then the way the budget check sends it.        *)
Admit(r, t) ==
  /\ CreateTask(t)
  /\ \E v \in Verdict[t] :
       Starts(r, "create", CASE v = "passed" -> "gates"
                             [] v = "rejected" -> "discard"
                             [] OTHER -> "budget", t, Budget)
  /\ UNCHANGED <<gate, due, flag>>

(* create_task finds its row gone when it reads it back.                   *)
Abandon(r) ==
  /\ req[r].call = "create"
  /\ req[r].at \in {"gates", "discard", "budget"} /\ req[r].next = 1
  /\ AbandonCreate(req[r].task)
  /\ Ends(r)
  /\ UNCHANGED <<gate, due, flag>>

(* Rejected by the budget check: the row is deleted again.                 *)
Discard(r) ==
  /\ req[r].at = "discard"
  /\ status' = [status EXCEPT ![req[r].task] = "deleted"]
  /\ cid' = [cid EXCEPT ![req[r].task] = FALSE]
  /\ submitting' = submitting \ {req[r].task}
  /\ Ends(r)
  /\ UNCHANGED <<box, mode, poolVars, cancelling, deleting, historyVars, gate, due, flag>>

(* Requires approval: a budget gate, then the task is parked, unsubmitted. *)
InsertBudgetGate(r) ==
  /\ req[r].at = "budget"
  /\ Insert(req[r].task, Budget)
  /\ Goes(r, "park")
  /\ UNCHANGED <<vars, due, flag>>

ParkFallsThrough(r) ==   \* fault: not parked, the handler goes on to submit_task
  /\ req[r].at = "park"
  /\ SetFlag(req[r].task, TRUE)
  /\ Ends(r)
  /\ UNCHANGED <<vars, gate, due>>

Park(r) ==
  /\ req[r].at = "park"
  /\ SetStatus(req[r].task, "pending_approval")
  /\ SetFlag(req[r].task, TRUE)
  /\ submitting' = submitting \ {req[r].task}
  /\ Ends(r)
  /\ UNCHANGED <<cid, box, mode, poolVars, cancelling, deleting, historyVars, gate, due>>

-----------------------------------------------------------------------------
(* create_required_gates, for the create and the approve handler: one gate *)
(* after the other, some of them approved at once by an approval rule.  A  *)
(* second gate for an action breaks UNIQUE(task_id, action): the handler   *)
(* fails.                                                                  *)
InsertGate(r) ==
  LET t == req[r].task
      a == Gated[req[r].next]
  IN /\ req[r].at = "gates"
     /\ req[r].next \in DOMAIN Gated
     /\ \/ /\ gate[t][a] = "none"
           /\ Insert(t, a)
           /\ \/ req' = [req EXCEPT ![r].next = @ + 1, ![r].made = TRUE]
              \/ Goes(r, "auto")
           /\ UNCHANGED submitting
        \/ /\ gate[t][a] # "none"
           /\ Ends(r)
           /\ submitting' = IF req[r].call = "create" THEN submitting \ {t} ELSE submitting
           /\ UNCHANGED gate
     /\ UNCHANGED <<rowVars, box, mode, poolVars, cancelling, deleting, historyVars, due, flag>>

AutoApproveSkipping(r) ==   \* fault: the loop advances twice
  /\ req[r].at = "auto"
  /\ Decide(req[r].task, Gated[req[r].next], "approved")
  /\ req' = [req EXCEPT ![r].at = "gates", ![r].next = @ + 2]
  /\ UNCHANGED <<vars, due, flag>>

AutoApprove(r) ==
  /\ req[r].at = "auto"
  /\ Decide(req[r].task, Gated[req[r].next], "approved")
  /\ req' = [req EXCEPT ![r].at = "gates", ![r].next = @ + 1]
  /\ UNCHANGED <<vars, due, flag>>

(* The flag once the gates exist.  The create handler has submit_task left *)
(* (RunnerPool's Submit), the approve handler goes on.                     *)
FlagGates(r) ==
  /\ req[r].at = "gates"
  /\ req[r].next \notin DOMAIN Gated
  /\ IF req[r].made THEN SetFlag(req[r].task, TRUE) ELSE UNCHANGED flag
  /\ IF req[r].call = "create" THEN Ends(r) ELSE Goes(r, "still")
  /\ UNCHANGED <<vars, gate, due>>

(* The preset's config was made invalid (PUT /policies takes any dict)     *)
(* after the handler looked at it: resolve_effective_policy raises, or     *)
(* malformed approval rules do inside create_required_gates.  Nothing      *)
(* undoes what the handler has written: a created row stays queued without *)
(* its gates, an approved task stays parked.                               *)
PolicyRaises(r) ==
  /\ Breaks
  /\ req[r].at \in {"gates", "discard", "budget"}
  /\ req[r].next \in DOMAIN Gated \union {1}
  /\ Goes(r, "raised")
  /\ UNCHANGED <<vars, gate, due, flag>>

(* The server answers 500.                                                 *)
AnswerError(r) ==
  /\ req[r].at = "raised"
  /\ submitting' = IF req[r].call = "create" THEN submitting \ {req[r].task}
                   ELSE submitting
  /\ Ends(r)
  /\ UNCHANGED <<rowVars, box, mode, poolVars, cancelling, deleting, historyVars,
                 gate, due, flag>>

(* submit_task, at the end of a create or an approve handler.              *)
SubmitEarly(t) == Submit(t) /\ UNCHANGED gateVars   \* fault: before its gates
SubmitTask(t) == ~Creating(t) /\ Submit(t) /\ UNCHANGED gateVars

-----------------------------------------------------------------------------
(* POST /tasks/{id}/approve/{action} and /reject/{action}: the row exists, *)
(* then the gate is decided; a gate that is not pending ends the request   *)
(* with a 404.  A request for an action without a gate changes nothing and *)
(* is not shown.                                                           *)
Request(r, call, t, a) ==
  /\ call \in Calls
  /\ Row(t)
  /\ gate[t][a] = "pending"
  /\ Starts(r, call, "decide", t, a)
  /\ UNCHANGED <<vars, gate, due, flag>>

DecideGate(r) ==
  LET t == req[r].task
      a == req[r].action
  IN /\ req[r].at = "decide"
     /\ Decide(t, a, IF req[r].call = "approve" THEN "approved" ELSE "rejected")
     /\ IF Decidable(t, a) THEN Goes(r, "refetch") ELSE Ends(r)
     /\ UNCHANGED <<vars, due, flag>>

(* approve, after the decision: only a budget gate of a parked task        *)
(* resumes the task.                                                       *)
Resumes(r) == req[r].action = Budget /\ status[req[r].task] = "pending_approval"

ApproveRefetch(r) ==
  /\ req[r].at = "refetch" /\ req[r].call = "approve"
  /\ Goes(r, IF Resumes(r) THEN "list" ELSE "has")
  /\ UNCHANGED <<vars, gate, due, flag>>

ApproveList(r) ==
  /\ req[r].at = "list"
  /\ Expire(req[r].task)
  /\ Goes(r, IF gate[req[r].task][Budget] = "pending" THEN "has" ELSE "gates")
  /\ UNCHANGED <<vars, due, flag>>

StillPending(r) ==
  /\ req[r].at = "still"
  /\ req' = [req EXCEPT ![r].at = "resume", ![r].made = HasPending(req[r].task)]
  /\ UNCHANGED <<vars, gate, due, flag>>

ResumeClearing(r) ==   \* fault: requires_approval=0, whatever is still pending
  /\ req[r].at = "resume"
  /\ SetStatus(req[r].task, "queued")
  /\ SetFlag(req[r].task, FALSE)
  /\ Goes(r, "reread")
  /\ UNCHANGED <<cid, box, mode, poolVars, handlerVars, historyVars, gate, due>>

(* The row goes back to queued, whatever it holds by now, and is submitted *)
(* if it is still there when read again.                                   *)
Resume(r) ==
  /\ req[r].at = "resume"
  /\ SetStatus(req[r].task, "queued")
  /\ SetFlag(req[r].task, req[r].made)
  /\ Goes(r, "reread")
  /\ UNCHANGED <<cid, box, mode, poolVars, handlerVars, historyVars, gate, due>>

RereadForgetting(r) ==   \* fault: the approve handler forgets submit_task
  /\ req[r].at = "reread"
  /\ Ends(r)
  /\ UNCHANGED <<vars, gate, due, flag>>

Reread(r) ==
  /\ req[r].at = "reread"
  /\ submitting' = IF Row(req[r].task) THEN submitting \union {req[r].task} ELSE submitting
  /\ Ends(r)
  /\ UNCHANGED <<rowVars, box, mode, poolVars, cancelling, deleting, historyVars,
                 gate, due, flag>>

(* Any other approval clears the flag when no gate is pending.             *)
ApproveCheck(r) ==
  /\ req[r].at = "has"
  /\ IF HasPending(req[r].task) THEN Ends(r) ELSE Goes(r, "clear")
  /\ UNCHANGED <<vars, gate, due, flag>>

ApproveClear(r) ==
  /\ req[r].at = "clear"
  /\ SetFlag(req[r].task, FALSE)
  /\ Ends(r)
  /\ UNCHANGED <<vars, gate, due>>

(* reject, after the decision: a rejected budget gate fails a parked task; *)
(* any other rejection leaves the row alone.                               *)
RejectRefetch(r) ==
  /\ req[r].at = "refetch" /\ req[r].call = "reject"
  /\ IF Resumes(r) THEN Goes(r, "fail") ELSE Ends(r)
  /\ UNCHANGED <<vars, gate, due, flag>>

RejectFail(r) ==
  /\ req[r].at = "fail"
  /\ SetStatus(req[r].task, "failed")
  /\ SetFlag(req[r].task, FALSE)
  /\ Ends(r)
  /\ UNCHANGED <<cid, box, mode, poolVars, handlerVars, historyVars, gate, due>>

-----------------------------------------------------------------------------
(* expires_at passes; the row changes when somebody reads the gates.       *)
BecomeDue(t, a) ==
  /\ Expires
  /\ gate[t][a] = "pending"
  /\ a \notin due[t]
  /\ due' = [due EXCEPT ![t] = @ \union {a}]
  /\ UNCHANGED <<vars, gate, flag, req>>

(* GET /tasks/{id}/approvals, create-pr, the approval page.                *)
ReadGates(t) ==
  /\ mode = "serving"
  /\ \E a \in due[t] : gate[t][a] = "pending"
  /\ Row(t)
  /\ Expire(t)
  /\ UNCHANGED <<vars, due, flag, req>>

-----------------------------------------------------------------------------
ApprovalsInit ==
  /\ Init
  /\ gate = [t \in Task |-> [a \in Action |-> "none"]]
  /\ due = [t \in Task |-> {}]
  /\ flag = [t \in Task |-> FALSE]
  /\ req = [r \in Requests |-> Idle]

(* What a handler does on its own once its request has arrived.            *)
Handle(r) ==
  \/ Abandon(r) \/ Discard(r) \/ InsertBudgetGate(r) \/ Park(r)
  \/ InsertGate(r) \/ AutoApprove(r) \/ FlagGates(r)
  \/ PolicyRaises(r) \/ AnswerError(r)
  \/ DecideGate(r) \/ ApproveRefetch(r) \/ ApproveList(r) \/ StillPending(r) \/ Resume(r) \/ Reread(r)
  \/ ApproveCheck(r) \/ ApproveClear(r)
  \/ RejectRefetch(r) \/ RejectFail(r)

ApprovalsCrash ==
  /\ Crash
  /\ req' = [r \in Requests |-> Idle]
  /\ UNCHANGED <<gate, due, flag>>

ApprovalsNext ==
  \/ \E r \in Requests :
       \/ Handle(r)
       \/ \E t \in Task :
            \/ Admit(r, t)
            \/ \E a \in Action, call \in {"approve", "reject"} : Request(r, call, t, a)
  \/ \E t \in Task :
       SubmitTask(t) \/ ReadGates(t) \/ \E a \in Action : BecomeDue(t, a)
  \/ ServerStep /\ UNCHANGED gateVars
  \/ ApprovalsCrash
  \/ (StartServing \/ \E t \in Task : RecoverOrphan(t)) /\ UNCHANGED gateVars

ApprovalsSpec == ApprovalsInit /\ [][ApprovalsNext]_avars

(* As in RunnerPool: the event loop runs every handler and coroutine.      *)
ApprovalsFairness ==
  /\ \A r \in Requests : WF_avars(Handle(r))
  /\ \A t \in Task : WF_avars(SubmitTask(t))
  /\ \A w \in Worker : WF_avars(WorkerStep(w) /\ UNCHANGED gateVars)
  /\ WF_avars((StartServing \/ \E t \in Task : RecoverOrphan(t)) /\ UNCHANGED gateVars)

ApprovalsFairSpec == ApprovalsSpec /\ ApprovalsFairness

-----------------------------------------------------------------------------
(* Types of the variables this module adds.                                *)
ApprovalsTypeOK ==
  /\ gate \in [Task -> [Action -> {"none", "pending", "approved", "rejected"}]]
  /\ due \in [Task -> SUBSET Action]
  /\ flag \in [Task -> BOOLEAN]
  /\ req \in [Requests -> [call : {"none", "create", "approve", "reject"}, at : At,
                           task : Task, action : Action,
                           next : 1..(Len(Gated) + 1), made : BOOLEAN]]

(* One decision per gate: whatever approvals, rejections, approval rules   *)
(* and expiries race for it, the first one stands.                         *)
DecisionIsFinal ==
  [][\A t \in Task, a \in Action :
       gate[t][a] \in {"approved", "rejected"} => gate'[t][a] = gate[t][a]]_avars

(* "Do NOT submit - task blocks until budget gate is approved"             *)
(* (api/tasks.py:162), "No execution ever starts" after a rejection        *)
(* (GETTING_STARTED.md:490): no task runs, or has run, whose budget gate   *)
(* is pending or rejected.                                                 *)
BudgetHoldsRun ==
  \A t \in Task : starts[t] > 0 => gate[t][Budget] \in {"none", "approved"}

(* "policy-driven gates on PR creation" (README.md:51): by the time the    *)
(* agent runs, the gates its policy asks for exist.                        *)
GatesBeforeRun ==
  \A t \in Task : starts[t] > 0 => \A a \in Action \ {Budget} : gate[t][a] # "none"

(* "The `requires_approval` flag on the task tracks whether any gates are  *)
(* still pending" (docs/V020_ARCHITECTURE.md:28): a task with a pending    *)
(* gate is flagged once nobody is working on it, through the budget gate,  *)
(* the resumption and the gate of the policy.  Except when the server died *)
(* between a gate and the flag, and when the policy asks for two gates or  *)
(* more: an approval of the first may look for pending gates before the    *)
(* second is inserted and clear the flag after it was set.                 *)
FlagCoversPending ==
  (crashes = 0 /\ Len(Gated) <= 1) =>
    \A t \in Task :
      (Row(t) /\ HasPending(t) /\ \A r \in Requests : req[r].at # "idle" => req[r].task # t)
        => flag[t]

(* A decision on the budget gate of a parked task takes effect: approved,  *)
(* the task runs to an outcome (or is cancelled or deleted on the way);    *)
(* rejected, it is marked failed (or deleted).  Except when the server     *)
(* dies, and when the policy has become invalid since: then the approval   *)
(* is answered with a 500, its gate approved and the task parked for ever. *)
DecisionTakesEffect ==
  \A t \in Task, r \in Requests :
    LET Decided(call) == /\ req[r].call = call /\ req[r].at = "refetch"
                         /\ req[r].task = t /\ Resumes(r)
        Settled(S) == status[t] \in S \/ mode = "boot"
    IN /\ Decided("approve") ~> \/ Settled(Outcome \union {"cancelled", "deleted"})
                               \/ req[r].at = "raised"
       /\ Decided("reject") ~> Settled({"failed", "deleted"})

(* A parked task whose budget gate is rejected ends up failed              *)
(* (GETTING_STARTED.md:490, README.md:104 for expiry).                     *)
RejectedBudgetFails ==
  \A t \in Task :
    (status[t] = "pending_approval" /\ gate[t][Budget] = "rejected")
      ~> (status[t] = "failed")
=============================================================================
