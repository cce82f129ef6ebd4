-------------------------- MODULE ApprovalsProofs ---------------------------
(***************************************************************************)
(* What Approvals guarantees for any number of tasks, requests and gated   *)
(* actions, checked by TLAPS.                                              *)
(***************************************************************************)
EXTENDS Approvals, RunnerPoolProofs

USE PoolAssumption, ApprovalsAssumption

Handler == [call : {"none", "create", "approve", "reject"}, at : At,
            task : Task, action : Action, next : Nat, made : BOOLEAN]

Gates == [Task -> [Action -> {"none", "pending", "approved", "rejected"}]]

Shape == /\ status \in [Task -> Status]
         /\ gate \in Gates
         /\ req \in [Requests -> Handler]

(* No gate of a task has a row.                                            *)
Untouched(t) == \A a \in Action : gate[t][a] = "none"

Alone(t) == \A r \in Requests : req[r].at = "idle" \/ req[r].task # t

(* Before its INSERT a task has no gates and no handler; on the way to its *)
(* budget gate it has no gates and only its create handler.                *)
NoneUntouched ==
  \A t \in Task : status[t] = "none" => Untouched(t) /\ Alone(t)

BudgetUntouched ==
  \A r \in Requests : req[r].at = "budget" =>
    /\ Untouched(req[r].task)
    /\ \A s \in Requests : s # r => req[s].at = "idle" \/ req[s].task # req[r].task

GatesInv == Shape /\ NoneUntouched /\ BudgetUntouched

LEMMA IdleType == Idle \in Handler
  BY DEF Idle, Handler, At, Task, Action

(* What a request does to its handler.                                     *)
LEMMA StartsStep ==
  ASSUME Shape, NEW r \in Requests, NEW call \in {"create", "approve", "reject"},
         NEW at \in At, NEW t \in Task, NEW a \in Action, Starts(r, call, at, t, a)
  PROVE  /\ req' \in [Requests -> Handler]
         /\ \A s \in Requests : s # r => req'[s] = req[s]
         /\ req[r].at = "idle" /\ req'[r].at = at /\ req'[r].task = t
         /\ req'[r].call = call /\ req'[r].action = a /\ req'[r].next = 1
<1> DEFINE h == [call |-> call, at |-> at, task |-> t, action |-> a,
                 next |-> 1, made |-> FALSE]
<1>1. h \in Handler /\ h.at = at /\ h.task = t /\ h.call = call /\ h.action = a /\ h.next = 1
  BY DEF Handler
<1>2. req' = [req EXCEPT ![r] = h] /\ req[r].at = "idle"
  BY DEF Starts
<1>3. req \in [Requests -> Handler]
  BY DEF Shape
<1> HIDE DEF h
<1>4. QED
  BY <1>1, <1>2, <1>3

LEMMA AtStep ==
  ASSUME NEW h \in Handler, NEW at \in At
  PROVE  /\ [h EXCEPT !.at = at] \in Handler
         /\ [h EXCEPT !.at = at].at = at
         /\ [h EXCEPT !.at = at].task = h.task
         /\ [h EXCEPT !.at = at].call = h.call
         /\ [h EXCEPT !.at = at].action = h.action
         /\ [h EXCEPT !.at = at].next = h.next
  BY DEF Handler

LEMMA NextStep ==
  ASSUME NEW h \in Handler, NEW n \in Nat
  PROVE  /\ [h EXCEPT !.next = n] \in Handler
         /\ [h EXCEPT !.next = n].at = h.at
         /\ [h EXCEPT !.next = n].task = h.task
         /\ [h EXCEPT !.next = n].call = h.call
         /\ [h EXCEPT !.next = n].action = h.action
         /\ [h EXCEPT !.next = n].next = n
  BY DEF Handler

LEMMA MadeStep ==
  ASSUME NEW h \in Handler, NEW b \in BOOLEAN
  PROVE  /\ [h EXCEPT !.made = b] \in Handler
         /\ [h EXCEPT !.made = b].at = h.at
         /\ [h EXCEPT !.made = b].task = h.task
         /\ [h EXCEPT !.made = b].call = h.call
         /\ [h EXCEPT !.made = b].action = h.action
         /\ [h EXCEPT !.made = b].next = h.next
  BY DEF Handler

LEMMA GoesStep ==
  ASSUME Shape, NEW r \in Requests, NEW at \in At, Goes(r, at)
  PROVE  /\ req' \in [Requests -> Handler]
         /\ \A s \in Requests : s # r => req'[s] = req[s]
         /\ req'[r].at = at /\ req'[r].task = req[r].task
         /\ req'[r].call = req[r].call /\ req'[r].action = req[r].action
         /\ req'[r].next = req[r].next
<1>1. req \in [Requests -> Handler] /\ req[r] \in Handler
  BY DEF Shape
<1> DEFINE h == [req[r] EXCEPT !.at = at]
<1>2. /\ h \in Handler /\ h.at = at /\ h.task = req[r].task
      /\ h.call = req[r].call /\ h.action = req[r].action /\ h.next = req[r].next
  BY <1>1, AtStep
<1>3. req' = [req EXCEPT ![r] = h]
  BY DEF Goes
<1> HIDE DEF h
<1>4. QED
  BY <1>1, <1>2, <1>3

LEMMA EndsStep ==
  ASSUME Shape, NEW r \in Requests, Ends(r)
  PROVE  /\ req' \in [Requests -> Handler]
         /\ \A s \in Requests : s # r => req'[s] = req[s]
         /\ req'[r].at = "idle" /\ req'[r] = Idle
  BY IdleType DEF Ends, Shape, Idle

(* A step of a handler moves that handler and leaves it on its task.       *)
SameRequest(r) ==
  /\ req'[r].task = req[r].task /\ req'[r].call = req[r].call
  /\ req'[r].action = req[r].action

LEMMA HandleReq ==
  ASSUME Shape, NEW r \in Requests, Handle(r)
  PROVE  /\ req' \in [Requests -> Handler]
         /\ \A s \in Requests : s # r => req'[s] = req[s]
         /\ req[r].at # "idle"
         /\ req'[r].at # "budget"
         /\ req'[r].at = "idle" \/ req'[r].task = req[r].task
         /\ req'[r] = Idle \/ SameRequest(r)
<1> USE DEF At, SameRequest
<1>1. ASSUME Ends(r), req[r].at # "idle"
      PROVE  /\ req' \in [Requests -> Handler]
             /\ \A s \in Requests : s # r => req'[s] = req[s]
             /\ req[r].at # "idle"
             /\ req'[r].at # "budget"
             /\ req'[r].at = "idle" \/ req'[r].task = req[r].task
             /\ req'[r] = Idle \/ SameRequest(r)
  BY <1>1, EndsStep
<1>2. ASSUME NEW at \in At \ {"idle", "budget"}, Goes(r, at), req[r].at # "idle"
      PROVE  /\ req' \in [Requests -> Handler]
             /\ \A s \in Requests : s # r => req'[s] = req[s]
             /\ req[r].at # "idle"
             /\ req'[r].at # "budget"
             /\ req'[r].at = "idle" \/ req'[r].task = req[r].task
             /\ req'[r] = Idle \/ SameRequest(r)
  <2>1. /\ req' \in [Requests -> Handler]
        /\ \A s \in Requests : s # r => req'[s] = req[s]
        /\ req'[r].at = at /\ SameRequest(r)
    <3>1. at \in At /\ Goes(r, at) /\ Shape
      BY <1>2
    <3> HIDE DEF At
    <3>2. QED
      BY <3>1, GoesStep
  <2>2. QED
    BY <1>2, <2>1
<1>3. CASE Abandon(r) \/ Discard(r) \/ Park(r) \/ Reread(r) \/ ApproveClear(r) \/ RejectFail(r)
           \/ AnswerError(r)
  BY <1>1, <1>3 DEF Abandon, Discard, Park, Reread, ApproveClear, RejectFail, AnswerError
<1>4. CASE InsertBudgetGate(r) \/ ApproveRefetch(r) \/ ApproveList(r) \/ Resume(r)
           \/ PolicyRaises(r)
  BY <1>2, <1>4 DEF InsertBudgetGate, ApproveRefetch, ApproveList, Resume, PolicyRaises
<1>5. CASE FlagGates(r) \/ DecideGate(r) \/ ApproveCheck(r) \/ RejectRefetch(r)
           \/ AnswerError(r)
  BY <1>1, <1>2, <1>5 DEF FlagGates, DecideGate, ApproveCheck, RejectRefetch, AnswerError
<1>h. req \in [Requests -> Handler] /\ req[r] \in Handler /\ req[r].next + 1 \in Nat
  BY DEF Shape, Handler
<1>6. CASE InsertGate(r)
  <2>1. CASE req' = [req EXCEPT ![r].next = @ + 1, ![r].made = TRUE]
    <3> DEFINE g == [req[r] EXCEPT !.next = req[r].next + 1]
    <3>1. /\ g \in Handler /\ g.at = req[r].at /\ g.task = req[r].task
          /\ g.call = req[r].call /\ g.action = req[r].action
      BY <1>h, NextStep
    <3>2. req' = [req EXCEPT ![r] = [g EXCEPT !.made = TRUE]]
      BY <2>1
    <3> HIDE DEF g
    <3> DEFINE h == [g EXCEPT !.made = TRUE]
    <3>3. /\ h \in Handler /\ h.at = g.at /\ h.task = g.task
          /\ h.call = g.call /\ h.action = g.action
      BY <1>h, <3>1, MadeStep
    <3> HIDE DEF h
    <3>4. req' = [req EXCEPT ![r] = h] /\ req[r].at = "gates"
      BY <1>6, <3>2 DEF h, InsertGate
    <3>5. QED
      BY <1>h, <3>1, <3>3, <3>4
  <2>2. QED
    BY <1>1, <1>2, <1>6, <2>1 DEF InsertGate
<1>7. CASE AutoApprove(r)
  <2> DEFINE g == [req[r] EXCEPT !.at = "gates"]
  <2>1. /\ g \in Handler /\ g.at = "gates" /\ g.task = req[r].task
        /\ g.call = req[r].call /\ g.action = req[r].action
    BY <1>h, AtStep DEF At
  <2>2. req' = [req EXCEPT ![r] = [g EXCEPT !.next = req[r].next + 1]]
    BY <1>7, <2>1 DEF AutoApprove
  <2> HIDE DEF g
  <2> DEFINE h == [g EXCEPT !.next = req[r].next + 1]
  <2>3. /\ h \in Handler /\ h.at = g.at /\ h.task = g.task
        /\ h.call = g.call /\ h.action = g.action
    BY <1>h, <2>1, NextStep
  <2> HIDE DEF h
  <2>4. req' = [req EXCEPT ![r] = h] /\ req[r].at = "auto"
    BY <1>7, <2>2 DEF h, AutoApprove
  <2>5. QED
    BY <1>h, <2>1, <2>3, <2>4
<1>8. CASE StillPending(r)
  <2>1. PICK b \in BOOLEAN : req' = [req EXCEPT ![r].at = "resume", ![r].made = b]
    BY <1>8 DEF StillPending, HasPending
  <2> DEFINE g == [req[r] EXCEPT !.at = "resume"]
  <2>2. /\ g \in Handler /\ g.at = "resume" /\ g.task = req[r].task
        /\ g.call = req[r].call /\ g.action = req[r].action
    BY <1>h, AtStep DEF At
  <2>3. req' = [req EXCEPT ![r] = [g EXCEPT !.made = b]]
    BY <2>1
  <2> HIDE DEF g
  <2> DEFINE h == [g EXCEPT !.made = b]
  <2>4. /\ h \in Handler /\ h.at = g.at /\ h.task = g.task
        /\ h.call = g.call /\ h.action = g.action
    BY <1>h, <2>2, MadeStep
  <2> HIDE DEF h
  <2>5. req' = [req EXCEPT ![r] = h] /\ req[r].at = "still"
    BY <1>8, <2>3 DEF h, StillPending
  <2>6. QED
    BY <1>h, <2>2, <2>4, <2>5
<1>9. QED
  BY <1>3, <1>4, <1>5, <1>6, <1>7, <1>8 DEF Handle

-----------------------------------------------------------------------------
(* No step takes a row back to before its INSERT.                          *)
Inserted == /\ status' \in [Task -> Status]
            /\ \A t \in Task : status'[t] = "none" => status[t] = "none"

LEMMA Writes ==
  ASSUME status \in [Task -> Status], NEW t \in Task, NEW s \in Status \ {"none"},
         \/ SetStatus(t, s)
         \/ \E S \in SUBSET Status : SetStatusIf(t, S, s)
  PROVE  Inserted
<1>1. CASE SetStatus(t, s)
  BY <1>1 DEF SetStatus, Inserted
<1>2. CASE \E S \in SUBSET Status : SetStatusIf(t, S, s)
  BY <1>2 DEF SetStatusIf, Inserted
<1>3. QED
  BY <1>1, <1>2 DEF Inserted

LEMMA InsertedStep ==
  ASSUME Shape, [ApprovalsNext]_avars
  PROVE  Inserted
<1> USE DEF Status, Active, Cancellable, Outcome
<1> status \in [Task -> Status]
  BY DEF Shape
<1>1. CASE status' = status
  BY <1>1 DEF Inserted
<1>2. ASSUME NEW r \in Requests, Handle(r)
      PROVE  Inserted
  <2>1. req[r].task \in Task
    BY DEF Shape, Handler
  <2>2. CASE Discard(r)
    BY <2>1, <2>2 DEF Discard, Inserted
  <2>3. CASE Park(r)
    BY <2>1, <2>3, Writes DEF Park
  <2>4. CASE Resume(r)
    BY <2>1, <2>4, Writes DEF Resume
  <2>5. CASE RejectFail(r)
    BY <2>1, <2>5, Writes DEF RejectFail
  <2>6. CASE Abandon(r) \/ InsertBudgetGate(r) \/ InsertGate(r) \/ AutoApprove(r)
             \/ FlagGates(r) \/ DecideGate(r)
    BY <1>1, <2>6 DEF Abandon, AbandonCreate, InsertBudgetGate, InsertGate, AutoApprove,
                      FlagGates, DecideGate, vars, rowVars
  <2>7. CASE ApproveRefetch(r) \/ ApproveList(r) \/ StillPending(r) \/ Reread(r)
             \/ ApproveCheck(r) \/ ApproveClear(r) \/ RejectRefetch(r)
             \/ PolicyRaises(r) \/ AnswerError(r)
    BY <1>1, <2>7 DEF ApproveRefetch, ApproveList, StillPending, Reread, ApproveCheck,
                      ApproveClear, RejectRefetch, PolicyRaises, AnswerError, vars, rowVars
  <2>8. QED
    BY <1>2, <2>2, <2>3, <2>4, <2>5, <2>6, <2>7 DEF Handle
<1>3. ASSUME NEW r \in Requests, NEW t \in Task, Admit(r, t)
      PROVE  Inserted
  BY <1>3 DEF Admit, CreateTask, Inserted
<1>4. ASSUME NEW r \in Requests, NEW t \in Task, NEW a \in Action, NEW call,
             Request(r, call, t, a)
      PROVE  Inserted
  BY <1>1, <1>4 DEF Request, vars, rowVars
<1>5. ASSUME NEW t \in Task,
             SubmitTask(t) \/ ReadGates(t) \/ \E a \in Action : BecomeDue(t, a)
      PROVE  Inserted
  BY <1>1, <1>5 DEF SubmitTask, Submit, ReadGates, BecomeDue, vars, rowVars
<1>6. CASE ServerStep
  <2>1. ASSUME NEW w \in Worker, WorkerStep(w)
        PROVE  Inserted
    <3>1. Job(w) \in Task
      BY DEF Worker, Job
    <3>2. CASE Prepare(w)
      BY <1>1, <3>1, <3>2, Writes DEF Prepare
    <3>3. CASE MarkRunning(w)
      BY <3>1, <3>3, Writes DEF MarkRunning
    <3>4. CASE Collect(w)
      BY <3>1, <3>4, Writes DEF Collect
    <3>5. CASE HandleException(w)
      BY <3>1, <3>5, Writes DEF HandleException
    <3>6. CASE Acquire(w) \/ Fetch(w) \/ CreateContainer(w) \/ RecordContainer(w)
               \/ Boot(w) \/ SwitchNetwork(w)
      BY <1>1, <3>6 DEF Acquire, Fetch, CreateContainer, RecordContainer, Boot,
                        SwitchNetwork, rowVars
    <3>7. CASE WaitTimeout(w) \/ RemoveContainer(w) \/ Release(w) \/ DrainCount(w)
               \/ DrainList(w) \/ DrainPick(w)
      BY <1>1, <3>7 DEF WaitTimeout, RemoveContainer, Release, DrainCount, DrainList, DrainPick,
                        rowVars
    <3>8. QED
      BY <2>1, <3>2, <3>3, <3>4, <3>5, <3>6, <3>7 DEF WorkerStep
  <2>2. ASSUME NEW t \in Task, ContainerExit(t) \/ CancelRead(t) \/ CancelKill(t) \/ DeleteRead(t)
        PROVE  Inserted
    BY <1>1, <2>2 DEF ContainerExit, CancelRead, CancelKill, DeleteRead, rowVars
  <2>3. ASSUME NEW t \in Task, CancelWrite(t)
        PROVE  Inserted
    BY <2>3, Writes DEF CancelWrite, CancelExpects
  <2>4. ASSUME NEW t \in Task, DeleteRow(t)
        PROVE  Inserted
    BY <2>4 DEF DeleteRow, Inserted
  <2>5. QED
    BY <1>6, <2>1, <2>2, <2>3, <2>4 DEF ServerStep
<1>7. CASE ApprovalsCrash \/ StartServing
  BY <1>1, <1>7 DEF ApprovalsCrash, Crash, StartServing, rowVars
<1>8. ASSUME NEW t \in Task, RecoverOrphan(t)
      PROVE  Inserted
  BY <1>8 DEF RecoverOrphan, Inserted
<1>9. CASE UNCHANGED avars
  BY <1>1, <1>9 DEF avars, vars, rowVars
<1>10. QED
  BY <1>2, <1>3, <1>4, <1>5, <1>6, <1>7, <1>8, <1>9 DEF ApprovalsNext

-----------------------------------------------------------------------------
(* A step writes to pending gates, and to missing ones of tasks in S.      *)
Settles(S) ==
  /\ gate' \in Gates
  /\ \A t \in Task, a \in Action :
       \/ gate'[t][a] = gate[t][a]
       \/ gate[t][a] = "pending" /\ gate'[t][a] # "none"
       \/ gate[t][a] = "none" /\ t \in S

LEMMA InsertSettles ==
  ASSUME Shape, NEW t \in Task, NEW a \in Action, gate[t][a] = "none", Insert(t, a)
  PROVE  Settles({t})
<1>1. gate \in Gates /\ gate[t] \in [Action -> {"none", "pending", "approved", "rejected"}]
  BY DEF Shape, Gates
<1> DEFINE row == [gate[t] EXCEPT ![a] = "pending"]
<1>2. /\ row \in [Action -> {"none", "pending", "approved", "rejected"}]
      /\ \A b \in Action : row[b] = gate[t][b] \/ b = a
  BY <1>1
<1>3. gate' = [gate EXCEPT ![t] = row]
  BY DEF Insert
<1> HIDE DEF row
<1>4. gate' \in Gates /\ gate'[t] = row /\ \A u \in Task : u # t => gate'[u] = gate[u]
  BY <1>1, <1>2, <1>3 DEF Gates
<1>5. QED
  BY <1>2, <1>4 DEF Settles

LEMMA DecideSettles ==
  ASSUME Shape, NEW t \in Task, NEW a, NEW d \in {"approved", "rejected"}, Decide(t, a, d)
  PROVE  \A S : Settles(S)
<1>1. gate \in Gates /\ gate[t] \in [Action -> {"none", "pending", "approved", "rejected"}]
  BY DEF Shape, Gates
<1>2. CASE gate' = gate
  BY <1>1, <1>2 DEF Settles
<1>3. CASE gate' # gate
  <2> DEFINE row == [gate[t] EXCEPT ![a] = d]
  <2>1. gate[t][a] = "pending" /\ gate' = [gate EXCEPT ![t] = row]
    BY <1>3 DEF Decide, Decidable
  <2>2. /\ row \in [Action -> {"none", "pending", "approved", "rejected"}]
        /\ \A b \in Action : row[b] = gate[t][b] \/ (b = a /\ row[b] # "none")
    BY <1>1, <2>1
  <2> HIDE DEF row
  <2>3. gate' \in Gates /\ gate'[t] = row /\ \A u \in Task : u # t => gate'[u] = gate[u]
    BY <1>1, <2>1, <2>2 DEF Gates
  <2>4. QED
    BY <2>1, <2>2, <2>3 DEF Settles
<1>4. QED
  BY <1>2, <1>3

LEMMA ExpireSettles ==
  ASSUME Shape, NEW t \in Task, Expire(t)
  PROVE  \A S : Settles(S)
<1>1. gate \in Gates /\ gate[t] \in [Action -> {"none", "pending", "approved", "rejected"}]
  BY DEF Shape, Gates
<1> DEFINE row == [a \in Action |-> IF gate[t][a] = "pending" /\ a \in due[t]
                                    THEN "rejected" ELSE gate[t][a]]
<1>2. /\ row \in [Action -> {"none", "pending", "approved", "rejected"}]
      /\ \A a \in Action : row[a] = gate[t][a] \/ (gate[t][a] = "pending" /\ row[a] # "none")
  BY <1>1
<1>3. gate' = [gate EXCEPT ![t] = row]
  BY DEF Expire
<1> HIDE DEF row
<1>4. gate' \in Gates /\ gate'[t] = row /\ \A u \in Task : u # t => gate'[u] = gate[u]
  BY <1>1, <1>2, <1>3 DEF Gates
<1>5. QED
  BY <1>2, <1>4 DEF Settles

LEMMA SameSettles ==
  ASSUME Shape, gate' = gate
  PROVE  \A S : Settles(S)
  BY DEF Shape, Settles

(* A handler creates gates of its own task only, and decides pending ones. *)
LEMMA HandleSettles ==
  ASSUME GatesInv, NEW r \in Requests, Handle(r)
  PROVE  Settles({req[r].task})
<1>1. Shape /\ req[r].task \in Task /\ req[r].action \in Action
  BY DEF GatesInv, Shape, Handler
<1>2. CASE Abandon(r) \/ Discard(r) \/ Park(r) \/ FlagGates(r) \/ ApproveRefetch(r)
           \/ StillPending(r) \/ Resume(r) \/ Reread(r)
  BY <1>1, <1>2, SameSettles DEF Abandon, Discard, Park, FlagGates, ApproveRefetch,
                                 StillPending, Resume, Reread
<1>3. CASE ApproveCheck(r) \/ ApproveClear(r) \/ RejectRefetch(r) \/ RejectFail(r)
           \/ PolicyRaises(r) \/ AnswerError(r)
  BY <1>1, <1>3, SameSettles DEF ApproveCheck, ApproveClear, RejectRefetch, RejectFail,
                                 PolicyRaises, AnswerError
<1>4. CASE InsertBudgetGate(r)
  <2>1. Budget \in Action /\ gate[req[r].task][Budget] = "none"
    BY <1>4 DEF InsertBudgetGate, GatesInv, BudgetUntouched, Untouched, Action
  <2>2. QED
    BY <1>1, <1>4, <2>1, InsertSettles DEF InsertBudgetGate
<1>5. CASE InsertGate(r)
  <2> DEFINE a == Gated[req[r].next]
  <2>1. a \in Action
    BY <1>5 DEF InsertGate, Action
  <2>2. \/ gate[req[r].task][a] = "none" /\ Insert(req[r].task, a)
        \/ gate' = gate
    BY <1>5 DEF InsertGate
  <2> HIDE DEF a
  <2>3. QED
    BY <1>1, <2>1, <2>2, InsertSettles, SameSettles
<1>6. CASE AutoApprove(r)
  BY <1>1, <1>6, DecideSettles DEF AutoApprove
<1>7. CASE DecideGate(r)
  <2>1. PICK d \in {"approved", "rejected"} : Decide(req[r].task, req[r].action, d)
    BY <1>7 DEF DecideGate
  <2>2. QED
    BY <1>1, <2>1, DecideSettles
<1>8. CASE ApproveList(r)
  BY <1>1, <1>8, ExpireSettles DEF ApproveList
<1>9. QED
  BY <1>2, <1>3, <1>4, <1>5, <1>6, <1>7, <1>8 DEF Handle

-----------------------------------------------------------------------------
(* What a step is to the gates: a handler of its task moves on, a request  *)
(* arrives, or handlers stay as they are or are lost.                      *)
HandlerMoves(r) ==
  /\ req' \in [Requests -> Handler]
  /\ \A s \in Requests : s # r => req'[s] = req[s]
  /\ req[r].at # "idle" /\ req'[r].at # "budget"
  /\ req'[r].at = "idle" \/ req'[r].task = req[r].task
  /\ Settles({req[r].task})

Arrives(r, t) ==
  /\ req' \in [Requests -> Handler]
  /\ \A s \in Requests : s # r => req'[s] = req[s]
  /\ req'[r].task = t /\ gate' = gate
  /\ \/ status[t] = "none" /\ status'[t] # "none"
     \/ req'[r].at # "budget" /\ \E a \in Action : gate[t][a] = "pending"

Elsewhere ==
  /\ req' = req \/ req' = [r \in Requests |-> Idle]
  /\ \A S : Settles(S)

LEMMA Steps ==
  ASSUME GatesInv, [ApprovalsNext]_avars
  PROVE  \/ \E r \in Requests : HandlerMoves(r)
         \/ \E r \in Requests, t \in Task : Arrives(r, t)
         \/ Elsewhere
<1>1. Shape
  BY DEF GatesInv
<1>2. ASSUME NEW r \in Requests, Handle(r)
      PROVE  HandlerMoves(r)
  BY <1>1, <1>2, HandleReq, HandleSettles DEF HandlerMoves
<1>3. ASSUME NEW r \in Requests, NEW t \in Task, Admit(r, t)
      PROVE  Arrives(r, t)
  <2>1. PICK at \in {"gates", "discard", "budget"} : Starts(r, "create", at, t, Budget)
    BY <1>3 DEF Admit
  <2>2. at \in At /\ Budget \in Action
    BY DEF At, Action
  <2>3. /\ req' \in [Requests -> Handler]
        /\ \A s \in Requests : s # r => req'[s] = req[s]
        /\ req'[r].task = t
    BY <1>1, <2>1, <2>2, StartsStep
  <2>4. gate' = gate /\ status[t] = "none" /\ status'[t] = "queued"
    BY <1>1, <1>3 DEF Admit, CreateTask, Shape
  <2>5. QED
    BY <2>3, <2>4 DEF Arrives
<1>4. ASSUME NEW r \in Requests, NEW t \in Task, NEW a \in Action,
             NEW call \in {"approve", "reject"}, Request(r, call, t, a)
      PROVE  Arrives(r, t)
  <2>1. /\ Starts(r, call, "decide", t, a) /\ "decide" \in At
        /\ call \in {"create", "approve", "reject"}
    BY <1>4 DEF Request, At
  <2>2. /\ req' \in [Requests -> Handler]
        /\ \A s \in Requests : s # r => req'[s] = req[s]
        /\ req'[r].task = t /\ req'[r].at = "decide"
    <3>1. CASE call = "approve"
      BY <1>1, <2>1, <3>1, StartsStep
    <3>2. CASE call = "reject"
      BY <1>1, <2>1, <3>2, StartsStep
    <3>3. QED
      BY <3>1, <3>2
  <2>3. QED
    BY <1>4, <2>2 DEF Request, Arrives
<1>5. ASSUME NEW t \in Task, ReadGates(t)
      PROVE  Elsewhere
  BY <1>1, <1>5, ExpireSettles DEF ReadGates, Elsewhere
<1>6. ASSUME NEW t \in Task, SubmitTask(t) \/ \E a \in Action : BecomeDue(t, a)
      PROVE  Elsewhere
  BY <1>1, <1>6, SameSettles DEF SubmitTask, BecomeDue, gateVars, Elsewhere
<1>7. CASE UNCHANGED gateVars
  BY <1>1, <1>7, SameSettles DEF gateVars, Elsewhere
<1>8. CASE ApprovalsCrash
  BY <1>1, <1>8, SameSettles DEF ApprovalsCrash, Elsewhere
<1>9. CASE UNCHANGED avars
  BY <1>7, <1>9 DEF avars
<1>10. QED
  BY <1>2, <1>3, <1>4, <1>5, <1>6, <1>7, <1>8, <1>9 DEF ApprovalsNext

(* The invariant survives every step, and no step undoes a decision.       *)
LEMMA GatesStep ==
  ASSUME GatesInv, [ApprovalsNext]_avars
  PROVE  /\ GatesInv'
         /\ \A t \in Task, a \in Action :
              gate[t][a] \in {"approved", "rejected"} => gate'[t][a] = gate[t][a]
<1>1. Shape /\ NoneUntouched /\ BudgetUntouched /\ Inserted
  BY InsertedStep DEF GatesInv
<1>2. ASSUME NEW r \in Requests, HandlerMoves(r)
      PROVE  GatesInv'
  <2>1. Shape'
    BY <1>1, <1>2 DEF Shape, HandlerMoves, Inserted, Settles
  <2>2. NoneUntouched'
    <3> SUFFICES ASSUME NEW t \in Task, status'[t] = "none"
                 PROVE  Untouched(t)' /\ Alone(t)'
      BY DEF NoneUntouched
    <3>1. Untouched(t) /\ Alone(t)
      BY <1>1 DEF NoneUntouched, Inserted
    <3>2. req[r].task # t
      BY <1>2, <3>1 DEF HandlerMoves, Alone
    <3>3. Untouched(t)'
      BY <1>2, <3>1, <3>2 DEF HandlerMoves, Settles, Untouched
    <3>4. Alone(t)'
      BY <1>2, <3>1, <3>2 DEF HandlerMoves, Alone
    <3>5. QED
      BY <3>3, <3>4
  <2>3. BudgetUntouched'
    <3> SUFFICES ASSUME NEW s \in Requests, req'[s].at = "budget"
                 PROVE  /\ Untouched(req[s].task)'
                        /\ \A q \in Requests : q # s => \/ req'[q].at = "idle"
                                                        \/ req'[q].task # req'[s].task
      BY DEF BudgetUntouched
    <3>1. s # r /\ req'[s] = req[s] /\ req[s].task \in Task
      BY <1>1, <1>2 DEF HandlerMoves, Shape, Handler
    <3>2. /\ Untouched(req[s].task) /\ req[r].task # req[s].task
          /\ \A q \in Requests : q # s => req[q].at = "idle" \/ req[q].task # req[s].task
      BY <1>1, <1>2, <3>1 DEF BudgetUntouched, HandlerMoves
    <3>3. Untouched(req[s].task)'
      BY <1>2, <3>1, <3>2 DEF HandlerMoves, Settles, Untouched
    <3>4. QED
      BY <1>2, <3>1, <3>2, <3>3 DEF HandlerMoves
  <2>4. QED
    BY <2>1, <2>2, <2>3 DEF GatesInv
<1>3. ASSUME NEW r \in Requests, NEW t \in Task, Arrives(r, t)
      PROVE  GatesInv'
  <2>1. Shape'
    BY <1>1, <1>3 DEF Shape, Arrives, Inserted
  <2>2. NoneUntouched'
    <3> SUFFICES ASSUME NEW u \in Task, status'[u] = "none"
                 PROVE  Untouched(u)' /\ Alone(u)'
      BY DEF NoneUntouched
    <3>1. Untouched(u) /\ Alone(u)
      BY <1>1 DEF NoneUntouched, Inserted
    <3>2. u # t
      BY <1>3, <3>1 DEF Arrives, Untouched
    <3>3. QED
      BY <1>3, <3>1, <3>2 DEF Arrives, Untouched, Alone
  <2>3. BudgetUntouched'
    <3> SUFFICES ASSUME NEW s \in Requests, req'[s].at = "budget"
                 PROVE  /\ Untouched(req[s].task)'
                        /\ \A q \in Requests : q # s => \/ req'[q].at = "idle"
                                                        \/ req'[q].task # req'[s].task
      BY DEF BudgetUntouched
    <3>1. CASE s = r
      <4>1. Untouched(t) /\ Alone(t)
        BY <1>1, <1>3, <3>1 DEF Arrives, NoneUntouched
      <4>2. QED
        BY <1>3, <3>1, <4>1 DEF Arrives, Untouched, Alone
    <3>2. CASE s # r
      <4>1. req'[s] = req[s] /\ Untouched(req[s].task)
        BY <1>1, <1>3, <3>2 DEF Arrives, BudgetUntouched
      <4>2. t # req[s].task
        <5>1. CASE status[t] = "none"
          <6>1. Alone(t) /\ req[s].at = "budget"
            BY <1>1, <4>1, <5>1 DEF NoneUntouched
          <6>2. QED
            BY <6>1 DEF Alone
        <5>2. CASE \E a \in Action : gate[t][a] = "pending"
          BY <4>1, <5>2 DEF Untouched
        <5>3. QED
          BY <1>3, <5>1, <5>2 DEF Arrives
      <4>3. \A q \in Requests : q # s => req[q].at = "idle" \/ req[q].task # req[s].task
        BY <1>1, <4>1 DEF BudgetUntouched
      <4>4. QED
        BY <1>3, <4>1, <4>2, <4>3 DEF Arrives, Untouched
    <3>3. QED
      BY <3>1, <3>2
  <2>4. QED
    BY <2>1, <2>2, <2>3 DEF GatesInv
<1>4. ASSUME Elsewhere
      PROVE  GatesInv'
  <2>1. Settles({}) /\ (req' = req \/ req' = [r \in Requests |-> Idle])
    BY <1>4 DEF Elsewhere
  <2>2. Shape'
    BY <1>1, <2>1, IdleType DEF Shape, Inserted, Settles
  <2>3. \A t \in Task : Untouched(t) => Untouched(t)'
    BY <2>1 DEF Settles, Untouched
  <2>4. \A r \in Requests : req'[r].at = "idle" \/ req' = req
    BY <2>1 DEF Idle
  <2>5. NoneUntouched'
    BY <1>1, <2>3, <2>4 DEF NoneUntouched, Inserted, Alone
  <2>6. BudgetUntouched'
    <3> SUFFICES ASSUME NEW s \in Requests, req'[s].at = "budget"
                 PROVE  /\ Untouched(req[s].task)'
                        /\ \A q \in Requests : q # s => \/ req'[q].at = "idle"
                                                        \/ req'[q].task # req'[s].task
      BY DEF BudgetUntouched
    <3>1. req' = req /\ req[s].task \in Task
      BY <1>1, <2>4 DEF Shape, Handler
    <3>2. /\ Untouched(req[s].task)
          /\ \A q \in Requests : q # s => req[q].at = "idle" \/ req[q].task # req[s].task
      BY <1>1, <3>1 DEF BudgetUntouched
    <3>3. \A a \in Action : gate'[req[s].task][a] = "none"
      BY <2>1, <3>1, <3>2 DEF Settles, Untouched
    <3>4. Untouched(req[s].task)'
      BY <3>1, <3>3 DEF Untouched
    <3>5. QED
      BY <3>1, <3>2, <3>4
  <2>7. QED
    BY <2>2, <2>5, <2>6 DEF GatesInv
<1>5. GatesInv'
  BY <1>2, <1>3, <1>4, Steps
<1>6. ASSUME NEW t \in Task, NEW a \in Action, gate[t][a] \in {"approved", "rejected"}
      PROVE  gate'[t][a] = gate[t][a]
  BY <1>6, Steps DEF HandlerMoves, Arrives, Elsewhere, Settles
<1>7. QED
  BY <1>5, <1>6

LEMMA GatesStart == ApprovalsInit => GatesInv
<1> SUFFICES ASSUME ApprovalsInit PROVE GatesInv
  OBVIOUS
<1>1. Shape
  BY IdleType DEF ApprovalsInit, Init, Shape, Gates, Status
<1>2. NoneUntouched /\ BudgetUntouched
  BY DEF ApprovalsInit, NoneUntouched, BudgetUntouched, Untouched, Alone, Idle
<1>3. QED
  BY <1>1, <1>2 DEF GatesInv

(* Whatever approvals, rejections, approval rules and expiries race for a  *)
(* gate, and for any number of tasks, requests and gated actions: the      *)
(* first decision on it stands.                                            *)
THEOREM DecisionTheorem == ApprovalsSpec => DecisionIsFinal
<1> DEFINE Kept == \A t \in Task, a \in Action :
                     gate[t][a] \in {"approved", "rejected"} => gate'[t][a] = gate[t][a]
<1>1. GatesInv /\ [ApprovalsNext]_avars => GatesInv' /\ Kept
  BY GatesStep
<1> HIDE DEF Kept
<1>2. ApprovalsSpec => [][Kept]_avars
  BY <1>1, GatesStart, PTL DEF ApprovalsSpec
<1>3. QED
  BY <1>2 DEF DecisionIsFinal, Kept
-----------------------------------------------------------------------------
(* Once a gate exists it exists for good.                                  *)
LEMMA GatesKept ==
  ASSUME GatesInv, [ApprovalsNext]_avars, NEW t \in Task, NEW a \in Action, gate[t][a] # "none"
  PROVE  gate'[t][a] # "none"
<1>1. ASSUME NEW S, Settles(S)
      PROVE  gate'[t][a] # "none"
  BY <1>1 DEF Settles
<1>2. CASE \E r \in Requests, u \in Task : Arrives(r, u)
  BY <1>2 DEF Arrives
<1>3. QED
  BY <1>1, <1>2, Steps DEF HandlerMoves, Elsewhere

(* The progress of a handler through the policy's gates.                   *)
GatesMade(t) == \A i \in DOMAIN Gated : gate[t][Gated[i]] # "none"

Looping == {"gates", "auto"}
Looped == {"still", "resume", "reread"}

InProgress(h) ==
  /\ h.at = "raised" => Breaks
  /\ h.at = "idle" => h.call = "none"
  /\ h.next \in 1..(Len(Gated) + 1)
  /\ h.at \notin {"raised"} \union Looping \union Looped => h.next = 1
  /\ h.at \in Looping => \A i \in DOMAIN Gated : i < h.next => gate[h.task][Gated[i]] # "none"
  /\ h.at = "auto" => h.next \in DOMAIN Gated /\ gate[h.task][Gated[h.next]] # "none"
  /\ h.at \in Looped => GatesMade(h.task)

Progress == \A r \in Requests : InProgress(req[r])

LEMMA GatedFacts ==
  /\ Len(Gated) \in Nat /\ DOMAIN Gated = 1..Len(Gated)
  /\ \A i \in DOMAIN Gated : Gated[i] \in Action
  /\ Budget \in Action
  BY DEF Action

(* A handler that does not move keeps its place in the loop.               *)
LEMMA InProgressKept ==
  ASSUME GatesInv, [ApprovalsNext]_avars, NEW h \in Handler, InProgress(h)
  PROVE  /\ h.next \in 1..(Len(Gated) + 1)
         /\ h.at = "raised" => Breaks
         /\ h.at = "idle" => h.call = "none"
         /\ h.at \notin {"raised"} \union Looping \union Looped => h.next = 1
         /\ h.at \in Looping => \A i \in DOMAIN Gated : i < h.next => gate'[h.task][Gated[i]] # "none"
         /\ h.at = "auto" => h.next \in DOMAIN Gated /\ gate'[h.task][Gated[h.next]] # "none"
         /\ h.at \in Looped => \A i \in DOMAIN Gated : gate'[h.task][Gated[i]] # "none"
<1>1. h.task \in Task
  BY DEF Handler
<1>2. \A i \in DOMAIN Gated : gate[h.task][Gated[i]] # "none" => gate'[h.task][Gated[i]] # "none"
  BY <1>1, GatesKept, GatedFacts
<1>3. QED
  BY <1>2 DEF InProgress, GatesMade

(* The same, of a handler after the step.                                  *)
Onward(r) ==
  /\ req'[r].at = "raised" => Breaks
  /\ req'[r].next \in 1..(Len(Gated) + 1)
  /\ req'[r].at = "idle" => req'[r].call = "none"
  /\ req'[r].at \notin {"raised"} \union Looping \union Looped => req'[r].next = 1
  /\ req'[r].at \in Looping =>
       \A i \in DOMAIN Gated : i < req'[r].next => gate'[req'[r].task][Gated[i]] # "none"
  /\ req'[r].at = "auto" =>
       req'[r].next \in DOMAIN Gated /\ gate'[req'[r].task][Gated[req'[r].next]] # "none"
  /\ req'[r].at \in Looped => \A i \in DOMAIN Gated : gate'[req'[r].task][Gated[i]] # "none"

LEMMA OnwardProgress ==
  ASSUME \A r \in Requests : Onward(r)
  PROVE  Progress'
BY DEF Progress, InProgress, Onward, GatesMade

LEMMA IdleOnward ==
  ASSUME NEW r, req'[r] = Idle
  PROVE  Onward(r)
BY GatedFacts DEF Idle, Onward, Looping, Looped

LEMMA HandleOnward ==
  ASSUME GatesInv, Progress, [ApprovalsNext]_avars, NEW r \in Requests, Handle(r)
  PROVE  Onward(r)
<1>1. Shape /\ req[r] \in Handler /\ req[r].task \in Task /\ InProgress(req[r])
  BY DEF GatesInv, Shape, Handler, Progress
<1>2. \A i \in DOMAIN Gated :
        gate[req[r].task][Gated[i]] # "none" => gate'[req[r].task][Gated[i]] # "none"
  BY <1>1, GatesKept, GatedFacts
<1>3. ASSUME Ends(r)
      PROVE  Onward(r)
  BY <1>1, <1>3, EndsStep, IdleOnward
<1>4. ASSUME NEW at \in At \ ({"idle", "raised"} \union Looping \union Looped), Goes(r, at),
             req[r].next = 1
      PROVE  Onward(r)
  <2>1. at \in At
    BY <1>4
  <2>2. req'[r].at = at /\ req'[r].next = 1
    BY <1>1, <1>4, <2>1, GoesStep
  <2>3. QED
    BY <1>4, <2>2, GatedFacts DEF Onward, Looping
<1>5. ASSUME NEW at \in Looped, Goes(r, at), GatesMade(req[r].task)
      PROVE  Onward(r)
  <2>1. at \in At
    BY <1>5 DEF At, Looped
  <2>2. req'[r].at = at /\ req'[r].next = req[r].next /\ req'[r].task = req[r].task
    BY <1>1, <1>5, <2>1, GoesStep
  <2>3. \A i \in DOMAIN Gated : gate'[req'[r].task][Gated[i]] # "none"
    BY <1>2, <1>5, <2>2 DEF GatesMade
  <2>4. QED
    BY <1>1, <1>5, <2>2, <2>3 DEF Onward, InProgress, Looping, Looped
<1>6. CASE Abandon(r) \/ Discard(r) \/ Park(r) \/ Reread(r) \/ ApproveClear(r) \/ RejectFail(r)
           \/ AnswerError(r)
  BY <1>3, <1>6 DEF Abandon, Discard, Park, Reread, ApproveClear, RejectFail, AnswerError
<1>7. CASE InsertBudgetGate(r)
  <2>1. Goes(r, "park") /\ req[r].next = 1
    BY <1>1, <1>7 DEF InsertBudgetGate, InProgress, Looping, Looped
  <2>2. QED
    BY <1>4, <2>1 DEF At, Looping, Looped
<1>8. CASE ApproveCheck(r) \/ RejectRefetch(r) \/ DecideGate(r)
  <2>1. req[r].next = 1
    BY <1>1, <1>8 DEF ApproveCheck, RejectRefetch, DecideGate, InProgress, Looping, Looped
  <2>2. Ends(r) \/ Goes(r, "clear") \/ Goes(r, "fail") \/ Goes(r, "refetch")
    BY <1>8 DEF ApproveCheck, RejectRefetch, DecideGate
  <2>3. QED
    BY <1>3, <1>4, <2>1, <2>2 DEF At, Looping, Looped
<1>9. CASE ApproveRefetch(r)
  <2>1. req[r].next = 1
    BY <1>1, <1>9 DEF ApproveRefetch, InProgress, Looping, Looped
  <2>2. Goes(r, "list") \/ Goes(r, "has")
    BY <1>9 DEF ApproveRefetch
  <2>3. QED
    BY <1>4, <2>1, <2>2 DEF At, Looping, Looped
<1>10. CASE ApproveList(r)
  <2>1. req[r].next = 1
    BY <1>1, <1>10 DEF ApproveList, InProgress, Looping, Looped
  <2>2. CASE Goes(r, "has")
    BY <1>4, <2>1, <2>2 DEF At, Looping, Looped
  <2>3. CASE Goes(r, "gates")
    <3>1. req'[r].at = "gates" /\ req'[r].next = 1
      BY <1>1, <2>1, <2>3, GoesStep DEF At
    <3>2. QED
      BY <3>1, GatedFacts DEF Onward, Looping, Looped
  <2>4. QED
    BY <1>10, <2>2, <2>3 DEF ApproveList
<1>11. CASE FlagGates(r)
  <2>1. GatesMade(req[r].task)
    BY <1>1, <1>11, GatedFacts DEF FlagGates, InProgress, Looping, GatesMade
  <2>2. Ends(r) \/ Goes(r, "still")
    BY <1>11 DEF FlagGates
  <2>3. QED
    BY <1>3, <1>5, <2>1, <2>2 DEF Looped
<1>12. CASE Resume(r)
  <2>1. GatesMade(req[r].task) /\ Goes(r, "reread")
    BY <1>1, <1>12 DEF Resume, InProgress, Looped
  <2>2. QED
    BY <1>5, <2>1 DEF Looped
<1>13. CASE StillPending(r)
  <2>1. PICK b \in BOOLEAN : req' = [req EXCEPT ![r].at = "resume", ![r].made = b]
    BY <1>13 DEF StillPending, HasPending
  <2> DEFINE g == [req[r] EXCEPT !.at = "resume"]
  <2>2. g \in Handler /\ g.at = "resume" /\ g.task = req[r].task /\ g.next = req[r].next
    BY <1>1, AtStep DEF At
  <2>3. req' = [req EXCEPT ![r] = [g EXCEPT !.made = b]]
    BY <2>1
  <2> HIDE DEF g
  <2> DEFINE h == [g EXCEPT !.made = b]
  <2>4. h.at = g.at /\ h.task = g.task /\ h.next = g.next
    BY <2>2, MadeStep
  <2> HIDE DEF h
  <2>5. req'[r] = h
    BY <1>1, <2>3 DEF h, Shape
  <2>6. GatesMade(req[r].task)
    BY <1>1, <1>13 DEF StillPending, InProgress, Looped
  <2>7. QED
    BY <1>1, <1>2, <2>2, <2>4, <2>5, <2>6 DEF Onward, InProgress, GatesMade, Looping, Looped
<1>14. CASE AutoApprove(r)
  <2> DEFINE g == [req[r] EXCEPT !.at = "gates"]
  <2>1. g \in Handler /\ g.at = "gates" /\ g.task = req[r].task /\ g.next = req[r].next
    BY <1>1, AtStep DEF At
  <2>2. req' = [req EXCEPT ![r] = [g EXCEPT !.next = req[r].next + 1]]
    BY <1>14, <2>1 DEF AutoApprove
  <2> HIDE DEF g
  <2> DEFINE h == [g EXCEPT !.next = req[r].next + 1]
  <2>3. req[r].next + 1 \in Nat
    BY <1>1 DEF Handler
  <2>4. h.at = g.at /\ h.task = g.task /\ h.next = req[r].next + 1
    BY <2>1, <2>3, NextStep
  <2> HIDE DEF h
  <2>5. req'[r] = h
    BY <1>1, <2>2 DEF h, Shape
  <2>6. /\ req[r].next \in DOMAIN Gated
        /\ \A i \in DOMAIN Gated : i < req[r].next + 1 => gate[req[r].task][Gated[i]] # "none"
    BY <1>1, <1>14, GatedFacts DEF AutoApprove, InProgress, Looping
  <2>7. QED
    BY <1>2, <2>1, <2>4, <2>5, <2>6, GatedFacts DEF Onward, Looping, Looped
<1>15. ASSUME InsertGate(r), ~Ends(r)
       PROVE  Onward(r)
  <2>1. /\ req[r].at = "gates" /\ req[r].next \in DOMAIN Gated
        /\ gate[req[r].task][Gated[req[r].next]] = "none"
        /\ Insert(req[r].task, Gated[req[r].next])
    BY <1>15 DEF InsertGate
  <2>2. gate'[req[r].task][Gated[req[r].next]] = "pending"
    BY <1>1, <2>1, GatedFacts DEF Insert, Shape, Gates
  <2>3. \A i \in DOMAIN Gated : i < req[r].next + 1 => gate'[req[r].task][Gated[i]] # "none"
    BY <1>1, <1>2, <2>1, <2>2, GatedFacts DEF InProgress, Looping
  <2>4. CASE Goes(r, "auto")
    <3>1. req'[r].at = "auto" /\ req'[r].next = req[r].next /\ req'[r].task = req[r].task
      BY <1>1, <2>4, GoesStep DEF At
    <3>2. QED
      BY <2>1, <2>2, <2>3, <3>1, GatedFacts DEF Onward, Looping, Looped
  <2>5. CASE req' = [req EXCEPT ![r].next = @ + 1, ![r].made = TRUE]
    <3> DEFINE g == [req[r] EXCEPT !.next = req[r].next + 1]
    <3>1. req[r].next + 1 \in Nat
      BY <1>1 DEF Handler
    <3>2. g \in Handler /\ g.at = "gates" /\ g.task = req[r].task /\ g.next = req[r].next + 1
      BY <1>1, <2>1, <3>1, NextStep
    <3>3. req' = [req EXCEPT ![r] = [g EXCEPT !.made = TRUE]]
      BY <2>5
    <3> HIDE DEF g
    <3> DEFINE h == [g EXCEPT !.made = TRUE]
    <3>4. h.at = g.at /\ h.task = g.task /\ h.next = g.next
      BY <3>2, MadeStep
    <3> HIDE DEF h
    <3>5. req'[r] = h
      BY <1>1, <3>3 DEF h, Shape
    <3>6. QED
      BY <2>1, <2>3, <3>2, <3>4, <3>5, GatedFacts DEF Onward, Looping, Looped
  <2>6. QED
    BY <1>15, <2>4, <2>5 DEF InsertGate
<1>16. CASE PolicyRaises(r)
  <2>1. Goes(r, "raised") /\ "raised" \in At /\ Breaks
    BY <1>16 DEF PolicyRaises, At
  <2>2. req'[r].at = "raised" /\ req'[r].next = req[r].next
    BY <1>1, <2>1, GoesStep
  <2>3. QED
    BY <1>1, <2>1, <2>2 DEF InProgress, Onward, Looping, Looped
<1>17. QED
  BY <1>3, <1>6, <1>7, <1>8, <1>9, <1>10, <1>11, <1>12, <1>13, <1>14, <1>15, <1>16 DEF Handle

LEMMA SameOnward ==
  ASSUME GatesInv, Progress, [ApprovalsNext]_avars, NEW r \in Requests, req'[r] = req[r]
  PROVE  Onward(r)
<1>1. req[r] \in Handler /\ InProgress(req[r])
  BY DEF GatesInv, Shape, Progress
<1>2. QED
  BY <1>1, InProgressKept DEF Onward

(* Who moves in a step: a handler, a request that arrives, or no handler.  *)
LEMMA Moves ==
  ASSUME [ApprovalsNext]_avars
  PROVE  \/ \E r \in Requests : Handle(r)
         \/ \E r \in Requests, t \in Task : Admit(r, t)
         \/ \E r \in Requests, t \in Task, a \in Action, call \in {"approve", "reject"} :
              Request(r, call, t, a)
         \/ UNCHANGED <<gate, req>>
         \/ \E t \in Task : ReadGates(t)
         \/ ApprovalsCrash
<1>1. CASE UNCHANGED gateVars
  BY <1>1 DEF gateVars
<1>2. CASE \E t \in Task : SubmitTask(t) \/ \E a \in Action : BecomeDue(t, a)
  BY <1>2 DEF SubmitTask, BecomeDue, gateVars
<1>3. CASE UNCHANGED avars
  BY <1>3 DEF avars, gateVars
<1>4. QED
  BY <1>1, <1>2, <1>3 DEF ApprovalsNext

LEMMA AdmitStep ==
  ASSUME Shape, NEW r \in Requests, NEW t \in Task, Admit(r, t)
  PROVE  /\ req[r].at = "idle" /\ \A s \in Requests : s # r => req'[s] = req[s]
         /\ req'[r].at \in {"gates", "discard", "budget"} /\ req'[r].next = 1
         /\ req'[r].call = "create" /\ req'[r].task = t
         /\ gate' = gate /\ status[t] = "none"
<1>1. PICK at \in {"gates", "discard", "budget"} : Starts(r, "create", at, t, Budget)
  BY DEF Admit
<1>2. at \in At /\ Budget \in Action
  BY GatedFacts DEF At
<1>3. QED
  BY <1>1, <1>2, StartsStep DEF Admit, CreateTask

LEMMA RequestStep ==
  ASSUME Shape, NEW r \in Requests, NEW t \in Task, NEW a \in Action,
         NEW call \in {"approve", "reject"}, Request(r, call, t, a)
  PROVE  /\ req[r].at = "idle" /\ \A s \in Requests : s # r => req'[s] = req[s]
         /\ req'[r].at = "decide" /\ req'[r].next = 1
         /\ req'[r].call = call /\ req'[r].task = t
         /\ gate' = gate
<1>1. Starts(r, call, "decide", t, a) /\ "decide" \in At /\ gate' = gate
  BY DEF Request, At
<1>2. call \in {"create", "approve", "reject"}
  OBVIOUS
<1>3. QED
  BY <1>1, <1>2, StartsStep

LEMMA ProgressStep ==
  ASSUME GatesInv, Progress, [ApprovalsNext]_avars
  PROVE  Progress'
<1> SUFFICES ASSUME NEW r \in Requests
             PROVE  Onward(r)
  BY OnwardProgress
<1>1. Shape
  BY DEF GatesInv
<1>2. CASE req'[r] = req[r]
  BY <1>2, SameOnward
<1>3. ASSUME NEW s \in Requests, Handle(s)
      PROVE  Onward(r)
  BY <1>1, <1>2, <1>3, HandleOnward, HandleReq
<1>4. ASSUME NEW s \in Requests, NEW t \in Task, Admit(s, t)
      PROVE  Onward(r)
  <2>1. CASE s = r
    <3>1. req'[r].at \in {"gates", "discard", "budget"} /\ req'[r].next = 1
      BY <1>1, <1>4, <2>1, AdmitStep
    <3>2. QED
      BY <3>1, GatedFacts DEF Onward, Looping, Looped
  <2>2. QED
    BY <1>1, <1>2, <1>4, <2>1, AdmitStep
<1>5. ASSUME NEW s \in Requests, NEW t \in Task, NEW a \in Action,
             NEW call \in {"approve", "reject"}, Request(s, call, t, a)
      PROVE  Onward(r)
  <2>1. req'[r] = req[r] \/ (req'[r].at = "decide" /\ req'[r].next = 1)
    BY <1>1, <1>5, RequestStep
  <2>2. QED
    BY <1>2, <2>1, GatedFacts DEF Onward, Looping, Looped
<1>6. CASE UNCHANGED <<gate, req>> \/ \E t \in Task : ReadGates(t)
  BY <1>2, <1>6 DEF ReadGates
<1>7. CASE ApprovalsCrash
  BY <1>7, IdleOnward DEF ApprovalsCrash
<1>8. QED
  BY <1>3, <1>4, <1>5, <1>6, <1>7, Moves

-----------------------------------------------------------------------------
(* The other variables of the gates keep their types.                      *)
Columns == due \in [Task -> SUBSET Action] /\ flag \in [Task -> BOOLEAN]

LEMMA SetFlagStep ==
  ASSUME Columns, NEW t \in Task, NEW b \in BOOLEAN, SetFlag(t, b)
  PROVE  flag' \in [Task -> BOOLEAN]
BY DEF Columns, SetFlag

LEMMA ColumnsStep ==
  ASSUME Shape, Columns, [ApprovalsNext]_avars
  PROVE  Columns'
<1>1. CASE UNCHANGED <<due, flag>>
  BY <1>1 DEF Columns
<1>2. ASSUME NEW r \in Requests, Handle(r)
      PROVE  Columns'
  <2>1. req[r].task \in Task /\ req[r].made \in BOOLEAN
    BY DEF Shape, Handler
  <2>2. CASE Abandon(r) \/ Discard(r) \/ InsertBudgetGate(r) \/ InsertGate(r) \/ AutoApprove(r)
             \/ DecideGate(r) \/ ApproveRefetch(r) \/ ApproveList(r) \/ StillPending(r)
             \/ Reread(r) \/ ApproveCheck(r) \/ RejectRefetch(r) \/ PolicyRaises(r)
             \/ AnswerError(r)
    BY <1>1, <2>2 DEF Abandon, Discard, InsertBudgetGate, InsertGate, AutoApprove, DecideGate,
         ApproveRefetch, ApproveList, StillPending, Reread, ApproveCheck, RejectRefetch,
         PolicyRaises, AnswerError
  <2>3. CASE Park(r) \/ FlagGates(r) \/ Resume(r) \/ ApproveClear(r) \/ RejectFail(r)
    <3>1. due' = due
      BY <2>3 DEF Park, FlagGates, Resume, ApproveClear, RejectFail
    <3>2. flag' = flag \/ \E b \in BOOLEAN : SetFlag(req[r].task, b)
      BY <2>1, <2>3 DEF Park, FlagGates, Resume, ApproveClear, RejectFail
    <3>3. QED
      BY <2>1, <3>1, <3>2, SetFlagStep DEF Columns
  <2>4. QED
    BY <1>2, <2>2, <2>3 DEF Handle
<1>3. ASSUME NEW t \in Task, NEW a \in Action, BecomeDue(t, a)
      PROVE  Columns'
  BY <1>3 DEF BecomeDue, Columns
<1>4. CASE \E r \in Requests, t \in Task :
             Admit(r, t) \/ \E a \in Action, call \in {"approve", "reject"} : Request(r, call, t, a)
  BY <1>1, <1>4 DEF Admit, Request
<1>5. CASE \E t \in Task : SubmitTask(t) \/ ReadGates(t)
  BY <1>1, <1>5 DEF SubmitTask, ReadGates, gateVars
<1>6. CASE ApprovalsCrash \/ UNCHANGED gateVars \/ UNCHANGED avars
  BY <1>1, <1>6 DEF ApprovalsCrash, gateVars, avars
<1>7. QED
  BY <1>2, <1>3, <1>4, <1>5, <1>6 DEF ApprovalsNext

GatingInv == GatesInv /\ Progress /\ Columns

LEMMA GatingStart == ApprovalsInit => GatingInv
<1>1. ApprovalsInit => Progress
  BY GatedFacts DEF ApprovalsInit, Progress, InProgress, Idle, Looping, Looped
<1>2. ApprovalsInit => Columns
  BY DEF ApprovalsInit, Columns
<1>3. QED
  BY <1>1, <1>2, GatesStart DEF GatingInv

LEMMA GatingStep == GatingInv /\ [ApprovalsNext]_avars => GatingInv'
BY GatesStep, ProgressStep, ColumnsStep DEF GatingInv, GatesInv

LEMMA GatingInvariant == ApprovalsSpec => []GatingInv
BY GatingStart, GatingStep, PTL DEF ApprovalsSpec

(* Gates, flags and handlers keep their types; no loop over the policy's   *)
(* gates runs past the end of the list.                                    *)
THEOREM ApprovalsTypeTheorem == ApprovalsSpec => []ApprovalsTypeOK
<1>1. GatingInv => ApprovalsTypeOK
  <2> SUFFICES ASSUME GatingInv
               PROVE  ApprovalsTypeOK
    OBVIOUS
  <2>1. /\ req \in [Requests -> Handler]
        /\ \A r \in Requests : req[r].next \in 1..(Len(Gated) + 1)
    BY DEF GatingInv, GatesInv, Shape, Progress, InProgress
  <2> DEFINE Narrow == [call : {"none", "create", "approve", "reject"}, at : At,
                        task : Task, action : Action,
                        next : 1..(Len(Gated) + 1), made : BOOLEAN]
  <2>2. \A h \in Handler : h.next \in 1..(Len(Gated) + 1) => h \in Narrow
    BY DEF Handler
  <2> HIDE DEF Narrow
  <2>3. req \in [Requests -> Narrow]
    BY <2>1, <2>2
  <2>4. QED
    BY <2>3 DEF Narrow, GatingInv, GatesInv, Shape, Gates, Columns, ApprovalsTypeOK
<1>2. QED
  BY <1>1, GatingInvariant, PTL

-----------------------------------------------------------------------------
(* How a task comes to run: a coroutine is spawned for it by submit_task,  *)
(* once its create handler is through, or by the drain of another one that *)
(* has read its row.                                                       *)
Pools == /\ pc \in [Worker -> PC]
         /\ starts \in [Task -> Nat]
         /\ submitting \subseteq Task
         /\ seen \in [Worker -> SUBSET Task]

Coroutine(t) == \E w \in Worker : Job(w) = t /\ pc[w] # "idle"
Started(t) == starts[t] > 0 \/ Coroutine(t)
Waiting(t) == t \in submitting /\ ~Creating(t)
Launched(t) == Started(t) \/ Waiting(t) \/ t \in Seen

(* A drain reads the row: it is queued.                                    *)
Drained(t) == status[t] = "queued" /\ \E w \in Worker : DrainList(w)

LEMMA GotoStep ==
  ASSUME Pools, NEW w \in Worker, pc[w] # "idle", NEW l \in PC, Goto(w, l)
  PROVE  pc' \in [Worker -> PC] /\ \A t \in Task : Coroutine(t)' => Coroutine(t)
BY DEF Pools, Goto, Coroutine

LEMMA WorkerPools ==
  ASSUME Pools, NEW w \in Worker, WorkerStep(w)
  PROVE  /\ Pools' /\ UNCHANGED <<submitting, mode>>
         /\ \A t \in Task : Started(t)' => Started(t) \/ t \in Seen
         /\ \A t \in Seen' : t \in Seen \/ Drained(t)
<1>1. Job(w) \in Task
  BY DEF Worker, Job
<1>2. ASSUME NEW l \in PC, Goto(w, l), pc[w] # "idle", UNCHANGED <<starts, submitting, mode>>
      PROVE  /\ pc' \in [Worker -> PC] /\ starts' \in [Task -> Nat]
             /\ UNCHANGED <<submitting, mode>>
             /\ \A t \in Task : Started(t)' => Started(t)
  BY <1>2, GotoStep DEF Pools, Started
<1>3. ASSUME NEW l \in PC, Goto(w, l), pc[w] # "idle", UNCHANGED <<starts, submitting, mode, seen>>
      PROVE  /\ Pools' /\ UNCHANGED <<submitting, mode>>
             /\ \A t \in Task : Started(t)' => Started(t) \/ t \in Seen
             /\ \A t \in Seen' : t \in Seen \/ Drained(t)
  BY <1>2, <1>3 DEF Pools, Seen
<1> USE DEF PC, Live, Holding, Boxed, Draining
<1>4. CASE Acquire(w) \/ Fetch(w) \/ Prepare(w) \/ RecordContainer(w) \/ Boot(w)
  BY <1>3, <1>4 DEF Acquire, Fetch, Prepare, RecordContainer, Boot, handlerVars, historyVars
<1>5. CASE MarkRunning(w) \/ SwitchNetwork(w) \/ Collect(w) \/ WaitTimeout(w)
           \/ HandleException(w) \/ RemoveContainer(w)
  BY <1>3, <1>5 DEF MarkRunning, SwitchNetwork, Collect, WaitTimeout, HandleException,
                    RemoveContainer, handlerVars, historyVars
<1>6. CASE Release(w) \/ DrainCount(w)
  BY <1>3, <1>6 DEF Release, DrainCount, handlerVars, historyVars
<1>7. CASE CreateContainer(w)
  <2>1. pc[w] = "create" /\ (Goto(w, "record") \/ Goto(w, "except"))
    BY <1>7 DEF CreateContainer
  <2>2. pc' \in [Worker -> PC] /\ \A t \in Task : Coroutine(t)' => Coroutine(t)
    BY <2>1, GotoStep
  <2>3. Coroutine(Job(w))
    BY <2>1 DEF Coroutine
  <2>4. /\ starts' \in [Task -> Nat] /\ UNCHANGED <<submitting, mode, seen>>
        /\ \A t \in Task : starts'[t] = starts[t] \/ t = Job(w)
    BY <1>1, <1>7 DEF CreateContainer, Pools, handlerVars
  <2>5. QED
    BY <2>2, <2>3, <2>4 DEF Started, Pools, Seen
<1>8. CASE DrainList(w)
  <2>1. /\ pc[w] = "list" /\ Goto(w, "pick") /\ UNCHANGED <<starts, submitting, mode>>
        /\ seen' = [seen EXCEPT ![w] = {t \in Task : status[t] = "queued"}]
    BY <1>8 DEF DrainList, handlerVars, historyVars
  <2>2. /\ pc' \in [Worker -> PC] /\ starts' \in [Task -> Nat]
        /\ \A t \in Task : Started(t)' => Started(t)
    BY <1>2, <2>1
  <2>3. seen' \in [Worker -> SUBSET Task]
    BY <2>1 DEF Pools
  <2>4. ASSUME NEW t \in Seen'
        PROVE  t \in Seen \/ Drained(t)
    <3>1. PICK v \in Worker : t \in seen'[v]
      BY <2>4 DEF Seen
    <3>2. t \in seen[v] \/ status[t] = "queued"
      BY <2>1, <3>1 DEF Pools
    <3>3. QED
      BY <1>8, <3>2 DEF Seen, Drained
  <2>5. QED
    BY <2>1, <2>2, <2>3, <2>4 DEF Pools
<1>9. CASE DrainPick(w)
  <2>1. /\ pc' = [v \in Worker |-> IF v \in {Fresh(t) : t \in ToStart(w)} THEN "acquire"
                                   ELSE IF v = w THEN "idle" ELSE pc[v]]
        /\ seen' = [seen EXCEPT ![w] = {}]
        /\ UNCHANGED <<starts, submitting, mode>>
    BY <1>9 DEF DrainPick, handlerVars, historyVars
  <2>2. Pools' /\ \A t \in Seen' : t \in Seen
    BY <2>1 DEF Pools, Seen
  <2>3. ASSUME NEW t \in Task, Coroutine(t)', t \notin ToStart(w)
        PROVE  Coroutine(t)
    <3>1. PICK v \in Worker : Job(v) = t /\ pc'[v] # "idle"
      BY <2>3 DEF Coroutine
    <3>2. v \notin {Fresh(u) : u \in ToStart(w)}
      <4>1. \A u : Job(Fresh(u)) = u
        BY DEF Fresh, Job
      <4>2. QED
        BY <2>3, <3>1, <4>1
    <3>3. QED
      BY <2>1, <3>1, <3>2 DEF Coroutine
  <2>4. ToStart(w) \subseteq Seen
    BY DEF ToStart, FirstOf, Seen
  <2>5. QED
    BY <2>1, <2>2, <2>3, <2>4 DEF Started
<1>10. QED
  BY <1>4, <1>5, <1>6, <1>7, <1>8, <1>9 DEF WorkerStep

LEMMA PoolsStep ==
  ASSUME GatingInv, Pools, [ApprovalsNext]_avars
  PROVE  /\ Pools'
         /\ \A t \in Task : Started(t)' => Launched(t)
         /\ \A t \in Seen' : t \in Seen \/ Drained(t)
<1>1. ASSUME UNCHANGED <<pc, starts, seen>>, submitting' \subseteq Task
      PROVE  Pools' /\ Seen' = Seen /\ \A t \in Task : Started(t)' => Started(t)
  BY <1>1 DEF Pools, Started, Coroutine, Seen
<1>2. ASSUME NEW r \in Requests, Handle(r)
      PROVE  Pools' /\ Seen' = Seen /\ \A t \in Task : Started(t)' => Started(t)
  <2>1. req[r].task \in Task
    BY DEF GatingInv, GatesInv, Shape, Handler
  <2>2. CASE Abandon(r) \/ Discard(r) \/ InsertBudgetGate(r) \/ Park(r) \/ InsertGate(r)
             \/ AutoApprove(r) \/ FlagGates(r) \/ DecideGate(r) \/ PolicyRaises(r)
             \/ AnswerError(r)
    BY <1>1, <2>2 DEF Pools, Abandon, AbandonCreate, Discard, InsertBudgetGate, Park, InsertGate,
         AutoApprove, FlagGates, DecideGate, PolicyRaises, AnswerError, vars, poolVars,
         historyVars, handlerVars
  <2>3. CASE ApproveRefetch(r) \/ ApproveList(r) \/ StillPending(r) \/ Resume(r) \/ Reread(r)
             \/ ApproveCheck(r) \/ ApproveClear(r) \/ RejectRefetch(r) \/ RejectFail(r)
    BY <1>1, <2>1, <2>3 DEF Pools, ApproveRefetch, ApproveList, StillPending, Resume, Reread,
         ApproveCheck, ApproveClear, RejectRefetch, RejectFail, vars, poolVars, historyVars,
         handlerVars
  <2>4. QED
    BY <1>2, <2>2, <2>3 DEF Handle
<1>3. ASSUME NEW r \in Requests, NEW t \in Task,
             Admit(r, t) \/ \E a \in Action, call \in {"approve", "reject"} : Request(r, call, t, a)
      PROVE  Pools' /\ Seen' = Seen /\ \A u \in Task : Started(u)' => Started(u)
  BY <1>1, <1>3 DEF Pools, Admit, CreateTask, Request, vars, poolVars, historyVars, handlerVars
<1>4. ASSUME NEW t \in Task, ReadGates(t) \/ \E a \in Action : BecomeDue(t, a)
      PROVE  Pools' /\ Seen' = Seen /\ \A u \in Task : Started(u)' => Started(u)
  BY <1>1, <1>4 DEF Pools, ReadGates, BecomeDue, vars, poolVars, historyVars, handlerVars
<1>5. ASSUME NEW t \in Task, SubmitTask(t)
      PROVE  Pools' /\ Seen' = Seen /\ \A u \in Task : Started(u)' => Started(u) \/ Waiting(u)
  <2>1. Waiting(t) /\ submitting' \subseteq Task /\ UNCHANGED <<starts, seen>>
    BY <1>5 DEF SubmitTask, Submit, Waiting, Pools, historyVars, poolVars
  <2>2. CASE UNCHANGED pc
    BY <1>1, <2>1, <2>2
  <2>3. CASE Goto(Fresh(t), "acquire")
    <3>1. pc' \in [Worker -> PC] /\ \A w \in Worker : w # Fresh(t) => pc'[w] = pc[w]
      BY <2>3 DEF Goto, Pools, PC, Live
    <3>2. Job(Fresh(t)) = t
      BY DEF Fresh, Job
    <3>3. \A u \in Task : Coroutine(u)' => Coroutine(u) \/ u = t
      BY <3>1, <3>2 DEF Coroutine
    <3>4. QED
      BY <2>1, <3>1, <3>3 DEF Pools, Started, Seen
  <2>4. QED
    BY <1>5, <2>2, <2>3 DEF SubmitTask, Submit, poolVars
<1>6. CASE ServerStep
  <2>1. CASE \E w \in Worker : WorkerStep(w)
    BY <2>1, WorkerPools DEF Launched
  <2>2. CASE \E t \in Task : \/ ContainerExit(t) \/ CancelRead(t) \/ CancelKill(t)
                             \/ CancelWrite(t) \/ DeleteRead(t) \/ DeleteRow(t)
    <3>1. UNCHANGED <<pc, starts, seen, submitting>>
      BY <2>2 DEF ContainerExit, CancelRead, CancelKill, CancelWrite, DeleteRead, DeleteRow,
         poolVars, historyVars, handlerVars
    <3>2. QED
      BY <1>1, <3>1 DEF Pools, Launched
  <2>3. QED
    BY <1>6, <2>1, <2>2 DEF ServerStep
<1>7. CASE ApprovalsCrash
  BY <1>7 DEF ApprovalsCrash, Crash, Pools, Started, Coroutine, PC, Launched, Seen
<1>8. CASE StartServing \/ (\E t \in Task : RecoverOrphan(t)) \/ UNCHANGED avars
  <2>1. UNCHANGED <<pc, starts, seen, submitting>>
    BY <1>8 DEF StartServing, RecoverOrphan, avars, vars, poolVars, historyVars, handlerVars
  <2>2. QED
    BY <1>1, <2>1 DEF Pools, Launched
<1>9. QED
  BY <1>2, <1>3, <1>4, <1>5, <1>6, <1>7, <1>8 DEF ApprovalsNext, Launched

(* A create handler ends in its loop, raises, or removes its task on the   *)
(* way.                                                                    *)
CreatePath == \A r \in Requests :
  req[r].call = "create" =>
    req[r].at \in {"gates", "auto", "budget", "park", "discard", "raised"}

Advances(r) ==
  AutoApprove(r) \/ (InsertGate(r) /\ gate[req[r].task][Gated[req[r].next]] = "none")

LEMMA LoopStep ==
  ASSUME Shape, NEW r \in Requests, Advances(r)
  PROVE  req'[r].at \in {"gates", "auto"}
<1>1. req[r] \in Handler /\ req[r].next + 1 \in Nat /\ req \in [Requests -> Handler]
  BY DEF Shape, Handler
<1>2. CASE Goes(r, "auto")
  BY <1>2, GoesStep DEF At
<1>3. CASE AutoApprove(r)
  <2> DEFINE g == [req[r] EXCEPT !.at = "gates"]
  <2>1. g \in Handler /\ g.at = "gates"
    BY <1>1, AtStep DEF At
  <2>2. req' = [req EXCEPT ![r] = [g EXCEPT !.next = req[r].next + 1]]
    BY <1>3, <2>1 DEF AutoApprove
  <2> HIDE DEF g
  <2>3. [g EXCEPT !.next = req[r].next + 1].at = "gates"
    BY <1>1, <2>1, NextStep
  <2>4. QED
    BY <1>1, <2>2, <2>3
<1>4. CASE req' = [req EXCEPT ![r].next = @ + 1, ![r].made = TRUE] /\ req[r].at = "gates"
  <2> DEFINE g == [req[r] EXCEPT !.next = req[r].next + 1]
  <2>1. g \in Handler /\ g.at = "gates"
    BY <1>1, <1>4, NextStep
  <2>2. req' = [req EXCEPT ![r] = [g EXCEPT !.made = TRUE]]
    BY <1>4
  <2> HIDE DEF g
  <2>3. [g EXCEPT !.made = TRUE].at = "gates"
    BY <2>1, MadeStep
  <2>4. QED
    BY <1>1, <2>2, <2>3
<1>5. QED
  BY <1>2, <1>3, <1>4 DEF Advances, InsertGate

(* Only the approve handler's end makes a task wait for submit_task.       *)
LEMMA HandleSubmitting ==
  ASSUME NEW r \in Requests, Handle(r), NEW t \in submitting'
  PROVE  t \in submitting \/ (Reread(r) /\ req[r].task = t)
<1>1. CASE Abandon(r) \/ Discard(r) \/ Park(r)
  BY <1>1 DEF Abandon, AbandonCreate, Discard, Park
<1>2. CASE InsertGate(r) \/ AnswerError(r)
  BY <1>2 DEF InsertGate, AnswerError
<1>3. CASE InsertBudgetGate(r) \/ AutoApprove(r) \/ FlagGates(r) \/ DecideGate(r)
           \/ ApproveRefetch(r) \/ ApproveList(r) \/ StillPending(r) \/ PolicyRaises(r)
  BY <1>3 DEF InsertBudgetGate, AutoApprove, FlagGates, DecideGate, ApproveRefetch, ApproveList,
     StillPending, PolicyRaises, vars, handlerVars
<1>4. CASE Resume(r) \/ ApproveCheck(r) \/ ApproveClear(r) \/ RejectRefetch(r) \/ RejectFail(r)
  BY <1>4 DEF Resume, ApproveCheck, ApproveClear, RejectRefetch, RejectFail, vars, handlerVars
<1>5. CASE Reread(r)
  BY <1>5 DEF Reread
<1>6. QED
  BY <1>1, <1>2, <1>3, <1>4, <1>5 DEF Handle

LEMMA CreatePathStep ==
  ASSUME GatingInv, CreatePath, [ApprovalsNext]_avars
  PROVE  CreatePath'
<1> SUFFICES ASSUME NEW r \in Requests, req'[r].call = "create"
             PROVE  req'[r].at \in {"gates", "auto", "budget", "park", "discard", "raised"}
  BY DEF CreatePath
<1>1. Shape /\ (req[r].at = "idle" => req[r].call # "create")
  BY DEF GatingInv, GatesInv, Progress, InProgress
<1>2. CASE req'[r] = req[r]
  BY <1>2 DEF CreatePath
<1>3. ASSUME NEW s \in Requests, Handle(s)
      PROVE  req'[r].at \in {"gates", "auto", "budget", "park", "discard", "raised"}
  <2>1. CASE s = r
    <3>1. ~Ends(r)
      BY <1>1, EndsStep DEF Idle
    <3>2. req[r].call = "create"
      BY <1>1, <1>3, <2>1, HandleReq DEF Idle, SameRequest
    <3>3. req[r].at \in {"gates", "auto", "budget", "park", "discard", "raised"}
      BY <3>2 DEF CreatePath
    <3>4. InsertBudgetGate(r) \/ InsertGate(r) \/ AutoApprove(r) \/ PolicyRaises(r)
      BY <1>3, <2>1, <3>1, <3>2, <3>3 DEF Handle, Abandon, Discard, Park, FlagGates, DecideGate,
         ApproveRefetch, ApproveList, StillPending, Resume, Reread, ApproveCheck, ApproveClear,
         RejectRefetch, RejectFail, AnswerError
    <3>5. CASE InsertBudgetGate(r)
      <4>1. Goes(r, "park") /\ "park" \in At
        BY <3>5 DEF InsertBudgetGate, At
      <4>2. QED
        BY <1>1, <4>1, GoesStep
    <3>6. CASE PolicyRaises(r)
      <4>1. Goes(r, "raised") /\ "raised" \in At
        BY <3>6 DEF PolicyRaises, At
      <4>2. QED
        BY <1>1, <4>1, GoesStep
    <3>7. InsertBudgetGate(r) \/ PolicyRaises(r) \/ Advances(r)
      BY <3>1, <3>4 DEF InsertGate, Advances
    <3>8. QED
      BY <1>1, <3>5, <3>6, <3>7, LoopStep
  <2>2. QED
    BY <1>1, <1>2, <1>3, <2>1, HandleReq
<1>4. ASSUME NEW s \in Requests, NEW t \in Task, Admit(s, t)
      PROVE  req'[r].at \in {"gates", "auto", "budget", "park", "discard", "raised"}
  BY <1>1, <1>2, <1>4, AdmitStep
<1>5. ASSUME NEW s \in Requests, NEW t \in Task, NEW a \in Action,
             NEW call \in {"approve", "reject"}, Request(s, call, t, a)
      PROVE  req'[r].at \in {"gates", "auto", "budget", "park", "discard", "raised"}
  <2>1. s # r
    BY <1>1, <1>5, RequestStep
  <2>2. QED
    BY <1>1, <1>2, <1>5, <2>1, RequestStep
<1>6. CASE UNCHANGED <<gate, req>> \/ \E t \in Task : ReadGates(t)
  BY <1>2, <1>6 DEF ReadGates
<1>7. CASE ApprovalsCrash
  BY <1>7 DEF ApprovalsCrash, Idle
<1>8. QED
  BY <1>3, <1>4, <1>5, <1>6, <1>7, Moves

(* A task waits for submit_task when a loop over its gates is through.     *)
Passes(t) == \E r \in Requests :
  req[r].task = t /\ (Reread(r) \/ (FlagGates(r) /\ req[r].call = "create"))

LEMMA WaitingStep ==
  ASSUME GatingInv, CreatePath, [ApprovalsNext]_avars, NEW t \in Task, Waiting(t)'
  PROVE  Waiting(t) \/ Passes(t)
<1>1. Shape
  BY DEF GatingInv, GatesInv
<1>2. \A r \in Requests : req[r].at = "idle" => req[r].call # "create"
  BY DEF GatingInv, GatesInv, Progress, InProgress
<1>3. t \in submitting' /\ ~Creating(t)'
  BY DEF Waiting
<1>4. ASSUME NEW r \in Requests, Handle(r)
      PROVE  Waiting(t) \/ Passes(t)
  <2>1. \A s \in Requests : s # r => req'[s] = req[s]
    BY <1>1, <1>4, HandleReq
  <2>2. CASE req[r].task = t /\ req[r].call = "create"
    <3>1. ~SameRequest(r)
      BY <1>3, <2>2 DEF SameRequest, Creating
    <3>2. req'[r] = Idle
      BY <1>1, <1>4, <3>1, HandleReq
    <3>3. req[r].at \in {"gates", "auto", "budget", "park", "discard", "raised"}
      BY <2>2 DEF CreatePath
    <3>4. ~Advances(r)
      BY <1>1, <3>2, LoopStep DEF Idle
    <3>5. ~InsertBudgetGate(r) /\ ~PolicyRaises(r)
      <4>1. "park" \in At /\ "raised" \in At
        BY DEF At
      <4>2. (InsertBudgetGate(r) => Goes(r, "park")) /\ (PolicyRaises(r) => Goes(r, "raised"))
        BY DEF InsertBudgetGate, PolicyRaises
      <4>3. ASSUME NEW at \in At, Goes(r, at)
            PROVE  req'[r].at = at
        BY <1>1, <4>3, GoesStep
      <4>4. QED
        BY <3>2, <4>1, <4>2, <4>3 DEF Idle
    <3>6. \/ Abandon(r) \/ Discard(r) \/ Park(r) \/ FlagGates(r) \/ AnswerError(r)
          \/ (InsertGate(r) /\ gate[t][Gated[req[r].next]] # "none")
      BY <1>4, <2>2, <3>3, <3>4, <3>5 DEF Handle, Advances, DecideGate, ApproveRefetch,
         ApproveList, StillPending, Resume, Reread, ApproveCheck, ApproveClear, RejectRefetch,
         RejectFail
    <3>7. CASE Abandon(r) \/ Discard(r) \/ Park(r) \/ AnswerError(r)
      BY <1>3, <2>2, <3>7 DEF Abandon, AbandonCreate, Discard, Park, AnswerError
    <3>8. CASE InsertGate(r) /\ gate[t][Gated[req[r].next]] # "none"
      BY <1>3, <2>2, <3>8 DEF InsertGate
    <3>9. QED
      BY <2>2, <3>6, <3>7, <3>8 DEF Passes
  <2>3. CASE ~(req[r].task = t /\ req[r].call = "create")
    <3>1. ~Creating(t)
      BY <1>3, <2>1, <2>3 DEF Creating
    <3>2. t \in submitting \/ (Reread(r) /\ req[r].task = t)
      BY <1>3, <1>4, HandleSubmitting
    <3>3. QED
      BY <3>1, <3>2 DEF Waiting, Passes
  <2>4. QED
    BY <2>2, <2>3
<1>5. ASSUME t \in submitting, \A r \in Requests : req[r].call = "create" => req'[r] = req[r]
      PROVE  Waiting(t)
  BY <1>3, <1>5 DEF Waiting, Creating
<1>6. ASSUME NEW r \in Requests, NEW u \in Task, Admit(r, u)
      PROVE  Waiting(t)
  <2>1. /\ req[r].at = "idle" /\ \A s \in Requests : s # r => req'[s] = req[s]
        /\ req'[r].call = "create" /\ req'[r].task = u
    BY <1>1, <1>6, AdmitStep
  <2>2. t # u
    BY <1>3, <2>1 DEF Creating
  <2>3. t \in submitting
    BY <1>3, <1>6, <2>2 DEF Admit, CreateTask
  <2>4. QED
    BY <1>2, <1>5, <2>1, <2>3
<1>7. ASSUME NEW r \in Requests, NEW u \in Task, NEW a \in Action,
             NEW call \in {"approve", "reject"}, Request(r, call, u, a)
      PROVE  Waiting(t)
  <2>1. req[r].at = "idle" /\ \A s \in Requests : s # r => req'[s] = req[s]
    BY <1>1, <1>7, RequestStep
  <2>2. t \in submitting
    BY <1>3, <1>7 DEF Request, vars, handlerVars
  <2>3. QED
    BY <1>2, <1>5, <2>1, <2>2
<1>8. ASSUME req' = req, submitting' \subseteq submitting
      PROVE  Waiting(t)
  BY <1>3, <1>5, <1>8
<1>9. CASE \E u \in Task : SubmitTask(u) \/ ReadGates(u) \/ \E a \in Action : BecomeDue(u, a)
  BY <1>8, <1>9 DEF SubmitTask, Submit, ReadGates, BecomeDue, gateVars, vars, handlerVars
<1>10. CASE ServerStep /\ UNCHANGED gateVars
  <2>1. submitting' = submitting
    <3>1. ASSUME NEW w \in Worker, WorkerStep(w)
          PROVE  submitting' = submitting
      BY <3>1 DEF WorkerStep, Acquire, Fetch, Prepare, CreateContainer, RecordContainer, Boot,
         MarkRunning, SwitchNetwork, Collect, WaitTimeout, HandleException, RemoveContainer,
         Release, DrainCount, DrainList, DrainPick, handlerVars
    <3>2. CASE \E u \in Task : \/ ContainerExit(u) \/ CancelRead(u) \/ CancelKill(u)
                               \/ CancelWrite(u) \/ DeleteRead(u) \/ DeleteRow(u)
      BY <3>2 DEF ContainerExit, CancelRead, CancelKill, CancelWrite, DeleteRead, DeleteRow,
         handlerVars
    <3>3. QED
      BY <1>10, <3>1, <3>2 DEF ServerStep
  <2>2. QED
    BY <1>8, <1>10, <2>1 DEF gateVars
<1>11. CASE ApprovalsCrash
  BY <1>3, <1>11 DEF ApprovalsCrash, Crash
<1>12. CASE (StartServing \/ \E u \in Task : RecoverOrphan(u)) /\ UNCHANGED gateVars
  BY <1>8, <1>12 DEF StartServing, RecoverOrphan, handlerVars, gateVars
<1>13. CASE UNCHANGED avars
  BY <1>8, <1>13 DEF avars, vars, handlerVars, gateVars
<1>14. QED
  BY <1>4, <1>6, <1>7, <1>9, <1>10, <1>11, <1>12, <1>13 DEF ApprovalsNext

LEMMA PassesFacts ==
  ASSUME GatingInv, NEW t \in Task, Passes(t)
  PROVE  status[t] # "none" /\ GatesMade(t)
<1>1. PICK r \in Requests : req[r].task = t /\ (Reread(r) \/ FlagGates(r))
  BY DEF Passes
<1>2. InProgress(req[r]) /\ (status[t] = "none" => Alone(t))
  BY DEF GatingInv, GatesInv, Progress, NoneUntouched
<1>3. CASE Reread(r)
  BY <1>1, <1>2, <1>3 DEF Reread, InProgress, Looped, Alone
<1>4. CASE FlagGates(r)
  BY <1>1, <1>2, <1>4, GatedFacts DEF FlagGates, InProgress, Looping, GatesMade, Alone
<1>5. QED
  BY <1>1, <1>3, <1>4

LEMMA GatesMadeKept ==
  ASSUME GatesInv, [ApprovalsNext]_avars, NEW t \in Task, GatesMade(t)
  PROVE  GatesMade(t)'
BY GatesKept, GatedFacts DEF GatesMade

(* A task is launched from a row, and the row stays.                       *)
LaunchInv ==
  /\ GatingInv /\ Pools /\ CreatePath
  /\ \A t \in Task : Launched(t) => status[t] # "none"

LEMMA LaunchedStep ==
  ASSUME LaunchInv, [ApprovalsNext]_avars, NEW t \in Task, Launched(t)'
  PROVE  Launched(t) \/ Drained(t) \/ Passes(t)
BY PoolsStep, WaitingStep DEF LaunchInv, Launched

LEMMA LaunchStart == ApprovalsInit => LaunchInv
<1>1. ApprovalsInit => Pools /\ CreatePath
  BY DEF ApprovalsInit, Init, Pools, PC, CreatePath, Idle
<1>2. ApprovalsInit => \A t \in Task : ~Launched(t)
  BY DEF ApprovalsInit, Init, Launched, Started, Coroutine, Waiting, Seen
<1>3. QED
  BY <1>1, <1>2, GatingStart DEF LaunchInv

LEMMA LaunchStep ==
  ASSUME LaunchInv, [ApprovalsNext]_avars
  PROVE  LaunchInv'
<1>1. GatingInv' /\ Pools' /\ CreatePath' /\ Inserted
  BY GatingStep, PoolsStep, CreatePathStep, InsertedStep DEF LaunchInv, GatingInv, GatesInv
<1>2. ASSUME NEW t \in Task, Launched(t)'
      PROVE  status'[t] # "none"
  <2>1. CASE Launched(t)
    BY <1>1, <2>1 DEF LaunchInv, Inserted
  <2>2. CASE Drained(t)
    BY <1>1, <2>2 DEF Drained, Inserted
  <2>3. CASE Passes(t)
    BY <1>1, <2>3, PassesFacts DEF LaunchInv, Inserted
  <2>4. QED
    BY <1>2, <2>1, <2>2, <2>3, LaunchedStep
<1>3. QED
  BY <1>1, <1>2 DEF LaunchInv

-----------------------------------------------------------------------------
(* GatesBeforeRun and BudgetHoldsRun do not hold of the code: a drain does *)
(* not ask for gates.  They hold of every behaviour in which each queued   *)
(* task a drain reads has its gates, so nothing else can break them:       *)
(* neither the handlers in any interleaving, nor expiry, nor a crash       *)
(* between two steps.                                                      *)
DrainsGated == \A w \in Worker : DrainList(w) =>
                 \A t \in Task : status[t] = "queued" => GatesMade(t)

GatedInv == LaunchInv /\ \A t \in Task : Launched(t) => GatesMade(t)

LEMMA GatedStep ==
  ASSUME GatedInv, [ApprovalsNext]_avars, DrainsGated \/ UNCHANGED avars
  PROVE  GatedInv'
<1>1. LaunchInv /\ LaunchInv' /\ GatingInv /\ GatesInv
  BY LaunchStep DEF GatedInv, LaunchInv, GatingInv
<1>2. ASSUME NEW t \in Task, Launched(t)'
      PROVE  GatesMade(t)'
  <2>1. CASE Launched(t)
    BY <1>1, <2>1, GatesMadeKept DEF GatedInv
  <2>2. CASE Passes(t)
    BY <1>1, <2>2, PassesFacts, GatesMadeKept
  <2>3. CASE Drained(t) /\ DrainsGated
    <3>1. GatesMade(t)
      BY <2>3 DEF Drained, DrainsGated
    <3>2. QED
      BY <1>1, <3>1, GatesMadeKept
  <2>4. CASE UNCHANGED avars
    BY <1>2, <2>1, <2>4 DEF Launched, Started, Coroutine, Waiting, Seen, Creating, avars, vars, poolVars,
       historyVars, handlerVars, gateVars
  <2>5. QED
    BY <1>1, <1>2, <2>1, <2>2, <2>3, <2>4, LaunchedStep
<1>3. QED
  BY <1>1, <1>2 DEF GatedInv

LEMMA GatedMeans == GatedInv => GatesBeforeRun
BY DEF GatedInv, Launched, Started, GatesMade, GatesBeforeRun, Action

(* By the time an agent runs, the gates its policy asks for exist, unless  *)
(* a drain took the task before it had them.                               *)
THEOREM GatesBeforeRunTheorem ==
  ApprovalsSpec /\ [][DrainsGated]_avars => []GatesBeforeRun
<1>1. ApprovalsInit => GatedInv
  <2>1. ApprovalsInit => \A t \in Task : ~Launched(t)
    BY DEF ApprovalsInit, Init, Launched, Started, Coroutine, Waiting, Seen
  <2>2. QED
    BY <2>1, LaunchStart DEF GatedInv
<1>2. GatedInv /\ [ApprovalsNext]_avars /\ [DrainsGated]_avars => GatedInv'
  BY GatedStep
<1>3. QED
  BY <1>1, <1>2, GatedMeans, PTL DEF ApprovalsSpec

(* One task alone: only its own coroutine drains, and that was launched.   *)
LEMMA AloneDrains ==
  ASSUME NumTasks = 1, NEW w \in Worker, DrainList(w), NEW t \in Task
  PROVE  Launched(t)
<1>1. Job(w) = 1 /\ t = 1
  BY DEF Worker, Job, Task
<1>2. pc[w] # "idle"
  BY DEF DrainList
<1>3. QED
  BY <1>1, <1>2 DEF Launched, Started, Coroutine

(* A task that is alone in the pool, and so drained by nobody else, has    *)
(* its gates before it runs, whatever crashes, expires or is deleted.      *)
THEOREM SingleTaskGates ==
  NumTasks = 1 => (ApprovalsSpec => []GatesBeforeRun)
<1> SUFFICES ASSUME NumTasks = 1
             PROVE  ApprovalsSpec => []GatesBeforeRun
  OBVIOUS
<1>1. ApprovalsInit => GatedInv
  <2>1. ApprovalsInit => \A t \in Task : ~Launched(t)
    BY DEF ApprovalsInit, Init, Launched, Started, Coroutine, Waiting, Seen
  <2>2. QED
    BY <2>1, LaunchStart DEF GatedInv
<1>2. GatedInv => DrainsGated
  BY AloneDrains DEF GatedInv, DrainsGated
<1>3. GatedInv /\ [ApprovalsNext]_avars => GatedInv'
  BY <1>2, GatedStep
<1>4. QED
  BY <1>1, <1>3, GatedMeans, PTL DEF ApprovalsSpec

-----------------------------------------------------------------------------
(* The same for the budget gate: it is approved, or there is none and no   *)
(* handler that will insert one.  A policy that gates budget_exceeded      *)
(* itself would insert it under another hand.                              *)
BudgetClear(t) ==
  \/ gate[t][Budget] = "approved"
  \/ /\ gate[t][Budget] = "none"
     /\ \A r \in Requests : req[r].at = "budget" => req[r].task # t

BudgetNotGated == \A i \in DOMAIN Gated : Gated[i] # Budget

LEMMA BudgetInserted ==
  ASSUME GatingInv, BudgetNotGated, [ApprovalsNext]_avars, NEW t \in Task,
         gate[t][Budget] = "none", gate'[t][Budget] # "none"
  PROVE  \E r \in Requests : req[r].at = "budget" /\ req[r].task = t
<1>1. Shape /\ gate \in Gates
  BY DEF GatingInv, GatesInv, Shape
<1>2. ASSUME NEW r \in Requests, Handle(r)
      PROVE  InsertBudgetGate(r) /\ req[r].task = t
  <2>1. req[r].task \in Task
    BY <1>1 DEF Shape, Handler
  <2>2. ASSUME NEW a \in Action, a # Budget \/ req[r].task # t, Insert(req[r].task, a)
        PROVE  FALSE
    BY <1>1, <2>1, <2>2, GatedFacts DEF Insert, Gates
  <2>3. ASSUME NEW a, NEW d, Decide(req[r].task, a, d)
        PROVE  FALSE
    BY <1>1, <2>1, <2>3, GatedFacts DEF Decide, Decidable, Gates
  <2>4. ASSUME Expire(req[r].task)
        PROVE  FALSE
    BY <1>1, <2>1, <2>4, GatedFacts DEF Expire, Gates
  <2>5. CASE InsertGate(r)
    BY <2>2, <2>5, GatedFacts DEF InsertGate, BudgetNotGated
  <2>6. CASE InsertBudgetGate(r)
    BY <2>2, <2>6, GatedFacts DEF InsertBudgetGate
  <2>7. CASE AutoApprove(r) \/ DecideGate(r)
    BY <2>3, <2>7 DEF AutoApprove, DecideGate
  <2>8. CASE ApproveList(r)
    BY <2>4, <2>8 DEF ApproveList
  <2>9. CASE Abandon(r) \/ Discard(r) \/ Park(r) \/ FlagGates(r) \/ ApproveRefetch(r)
             \/ StillPending(r) \/ Resume(r) \/ Reread(r)
    BY <2>9 DEF Abandon, Discard, Park, FlagGates, ApproveRefetch, StillPending, Resume, Reread
  <2>10. CASE ApproveCheck(r) \/ ApproveClear(r) \/ RejectRefetch(r) \/ RejectFail(r)
              \/ PolicyRaises(r) \/ AnswerError(r)
    BY <2>10 DEF ApproveCheck, ApproveClear, RejectRefetch, RejectFail, PolicyRaises, AnswerError
  <2>11. QED
    BY <1>2, <2>5, <2>6, <2>7, <2>8, <2>9, <2>10 DEF Handle
<1>3. ASSUME NEW u \in Task, ReadGates(u)
      PROVE  FALSE
  BY <1>1, <1>3, GatedFacts DEF ReadGates, Expire, Gates
<1>4. QED
  BY <1>2, <1>3, Moves DEF InsertBudgetGate, Admit, Request, ApprovalsCrash

LEMMA BudgetClearKept ==
  ASSUME GatingInv, BudgetNotGated, [ApprovalsNext]_avars, NEW t \in Task,
         BudgetClear(t), status[t] # "none"
  PROVE  BudgetClear(t)'
<1>1. Shape /\ GatesInv /\ Budget \in Action
  BY GatedFacts DEF GatingInv, GatesInv
<1>2. CASE gate[t][Budget] = "approved"
  BY <1>1, <1>2, GatesStep DEF BudgetClear
<1>3. CASE gate[t][Budget] = "none" /\ \A r \in Requests : req[r].at = "budget" => req[r].task # t
  <2>1. gate'[t][Budget] = "none"
    BY <1>3, BudgetInserted
  <2>2. ASSUME NEW r \in Requests, req'[r].at = "budget", req'[r].task = t
        PROVE  FALSE
    <3>1. req'[r] # req[r]
      BY <1>3, <2>2
    <3>2. ASSUME NEW s \in Requests, Handle(s)
          PROVE  FALSE
      BY <1>1, <2>2, <3>1, <3>2, HandleReq
    <3>3. ASSUME NEW s \in Requests, NEW u \in Task, Admit(s, u)
          PROVE  FALSE
      BY <1>1, <2>2, <3>1, <3>3, AdmitStep
    <3>4. ASSUME NEW s \in Requests, NEW u \in Task, NEW a \in Action,
                 NEW call \in {"approve", "reject"}, Request(s, call, u, a)
          PROVE  FALSE
      BY <1>1, <2>2, <3>1, <3>4, RequestStep
    <3>5. CASE ApprovalsCrash
      BY <2>2, <3>5 DEF ApprovalsCrash, Idle
    <3>6. QED
      BY <3>1, <3>2, <3>3, <3>4, <3>5, Moves DEF ReadGates
  <2>3. QED
    BY <2>1, <2>2 DEF BudgetClear
<1>4. QED
  BY <1>2, <1>3 DEF BudgetClear

(* What a handler knows of the budget gate of its task.                    *)
Funded(h) ==
  /\ h.at = "refetch" /\ h.call = "approve" /\ h.action = Budget =>
       gate[h.task][Budget] = "approved"
  /\ h.at = "list" => gate[h.task][Budget] = "approved"
  /\ h.at \in Looping \union Looped => BudgetClear(h.task)

AllFunded == \A r \in Requests : Funded(req[r])

LEMMA FundedKept ==
  ASSUME GatingInv, BudgetNotGated, [ApprovalsNext]_avars, NEW r \in Requests,
         Funded(req[r]), req'[r] = req[r]
  PROVE  Funded(req[r])'
<1>1. req[r].task \in Task /\ Budget \in Action /\ GatesInv
  BY GatedFacts DEF GatingInv, GatesInv, Shape, Handler
<1>2. gate[req[r].task][Budget] = "approved" => gate'[req[r].task][Budget] = "approved"
  BY <1>1, GatesStep
<1>3. ASSUME NEW t \in Task, t = req[r].task, req[r].at \in Looping \union Looped
      PROVE  BudgetClear(t)'
  <2>1. status[t] # "none"
    BY <1>1, <1>3 DEF GatesInv, NoneUntouched, Alone, Looping, Looped
  <2>2. BudgetClear(t)
    BY <1>3 DEF Funded
  <2>3. QED
    BY <1>1, <2>1, <2>2, BudgetClearKept
<1>4. PICK t \in Task : t = req[r].task /\ t = req'[r].task
  BY <1>1
<1>5. req[r].at \in Looping \union Looped => BudgetClear(t)'
  BY <1>3, <1>4
<1>6. QED
  BY <1>2, <1>4, <1>5 DEF Funded, BudgetClear

LEMMA StillStep ==
  ASSUME Shape, NEW r \in Requests, StillPending(r)
  PROVE  req'[r].at = "resume"
<1>1. PICK b \in BOOLEAN : req' = [req EXCEPT ![r].at = "resume", ![r].made = b]
  BY DEF StillPending, HasPending
<1>2. req[r] \in Handler /\ req \in [Requests -> Handler]
  BY DEF Shape
<1> DEFINE g == [req[r] EXCEPT !.at = "resume"]
<1>3. g \in Handler /\ g.at = "resume"
  BY <1>2, AtStep DEF At
<1>4. req' = [req EXCEPT ![r] = [g EXCEPT !.made = b]]
  BY <1>1
<1> HIDE DEF g
<1>5. [g EXCEPT !.made = b].at = "resume"
  BY <1>3, MadeStep
<1>6. QED
  BY <1>2, <1>4, <1>5

(* How a handler gets to the awaits at which it counts on the budget gate. *)
LEMMA Ways ==
  ASSUME Shape, NEW r \in Requests, Handle(r)
  PROVE  /\ req'[r].at = "refetch" => DecideGate(r) /\ Decidable(req[r].task, req[r].action)
         /\ req'[r].at = "list" => ApproveRefetch(r) /\ Resumes(r)
         /\ req'[r].at \in Looping \union Looped =>
              req[r].at \in Looping \union Looped \/ (ApproveList(r) /\ req[r].at = "list")
<1> USE DEF Looping, Looped
<1>1. Ends(r) => req'[r].at = "idle"
  BY EndsStep DEF Idle
<1>2. \A at \in At : Goes(r, at) => req'[r].at = at
  BY GoesStep
<1>3. CASE Abandon(r) \/ Discard(r) \/ Park(r) \/ Reread(r) \/ ApproveClear(r) \/ RejectFail(r)
           \/ AnswerError(r)
  BY <1>1, <1>3 DEF Abandon, Discard, Park, Reread, ApproveClear, RejectFail, AnswerError
<1>4. CASE InsertBudgetGate(r) \/ ApproveCheck(r) \/ RejectRefetch(r) \/ PolicyRaises(r)
  <2>1. Ends(r) \/ Goes(r, "park") \/ Goes(r, "clear") \/ Goes(r, "fail") \/ Goes(r, "raised")
    BY <1>4 DEF InsertBudgetGate, ApproveCheck, RejectRefetch, PolicyRaises
  <2>2. QED
    BY <1>1, <1>2, <2>1 DEF At
<1>5. CASE DecideGate(r)
  <2>1. Ends(r) \/ (Goes(r, "refetch") /\ Decidable(req[r].task, req[r].action))
    BY <1>5 DEF DecideGate
  <2>2. QED
    BY <1>1, <1>2, <1>5, <2>1 DEF At
<1>6. CASE ApproveRefetch(r)
  <2>1. Goes(r, "has") \/ (Goes(r, "list") /\ Resumes(r))
    BY <1>6 DEF ApproveRefetch
  <2>2. QED
    BY <1>2, <1>6, <2>1 DEF At
<1>7. CASE ApproveList(r)
  <2>1. req[r].at = "list" /\ (Goes(r, "has") \/ Goes(r, "gates"))
    BY <1>7 DEF ApproveList
  <2>2. QED
    BY <1>2, <1>7, <2>1 DEF At
<1>8. CASE FlagGates(r) \/ Resume(r)
  <2>1. req[r].at \in Looping \union Looped /\ (Ends(r) \/ Goes(r, "still") \/ Goes(r, "reread"))
    BY <1>8 DEF FlagGates, Resume
  <2>2. QED
    BY <1>1, <1>2, <2>1 DEF At
<1>9. CASE InsertGate(r) \/ AutoApprove(r)
  <2>1. req[r].at \in Looping /\ (Ends(r) \/ Advances(r))
    BY <1>9 DEF InsertGate, AutoApprove, Advances
  <2>2. QED
    BY <1>1, <2>1, LoopStep
<1>10. CASE StillPending(r)
  BY <1>10, StillStep DEF StillPending
<1>11. QED
  BY <1>3, <1>4, <1>5, <1>6, <1>7, <1>8, <1>9, <1>10 DEF Handle

LEMMA HandleFunded ==
  ASSUME GatingInv, BudgetNotGated, AllFunded, [ApprovalsNext]_avars, NEW r \in Requests, Handle(r)
  PROVE  Funded(req[r])'
<1>1. Shape /\ GatesInv /\ Budget \in Action /\ req[r].at # "idle"
  BY HandleReq, GatedFacts DEF GatingInv, GatesInv
<1>2. PICK t \in Task : t = req[r].task
  BY <1>1 DEF Shape, Handler
<1>3. req'[r] = Idle \/ (SameRequest(r) /\ req'[r].task = t)
  BY <1>1, <1>2, HandleReq DEF SameRequest
<1>4. CASE req'[r] = Idle
  BY <1>4 DEF Idle, Funded, Looping, Looped
<1>5. ASSUME SameRequest(r), req'[r].task = t
      PROVE  Funded(req[r])'
  <2>1. Funded(req[r])
    BY DEF AllFunded
  <2>2. ASSUME req'[r].at = "refetch", req[r].call = "approve", req[r].action = Budget
        PROVE  gate'[t][Budget] = "approved"
    <3>1. DecideGate(r) /\ Decidable(t, Budget)
      BY <1>1, <1>2, <2>2, Ways
    <3>2. Decide(t, Budget, "approved")
      BY <1>2, <2>2, <3>1 DEF DecideGate
    <3>3. QED
      BY <1>1, <3>1, <3>2 DEF Decide, Shape, Gates
  <2>3. gate[t][Budget] = "approved" => gate'[t][Budget] = "approved"
    BY <1>1, GatesStep
  <2>4. ASSUME req'[r].at = "list"
        PROVE  gate'[t][Budget] = "approved"
    <3>1. ApproveRefetch(r) /\ Resumes(r)
      BY <1>1, <2>4, Ways
    <3>2. gate[t][Budget] = "approved"
      BY <1>2, <2>1, <3>1 DEF Funded, ApproveRefetch, Resumes
    <3>3. QED
      BY <2>3, <3>2
  <2>5. ASSUME req'[r].at \in Looping \union Looped
        PROVE  BudgetClear(t)'
    <3>1. CASE req[r].at \in Looping \union Looped
      <4>1. status[t] # "none"
        BY <1>1, <1>2 DEF GatesInv, NoneUntouched, Alone
      <4>2. BudgetClear(t)
        BY <1>2, <2>1, <3>1 DEF Funded
      <4>3. QED
        BY <4>1, <4>2, BudgetClearKept
    <3>2. CASE req[r].at = "list"
      BY <1>2, <2>1, <2>3, <3>2 DEF Funded, BudgetClear
    <3>3. QED
      BY <1>1, <2>5, <3>1, <3>2, Ways
  <2>6. QED
    BY <1>5, <2>2, <2>4, <2>5 DEF Funded, BudgetClear, SameRequest
<1>6. QED
  BY <1>3, <1>4, <1>5

LEMMA FundedStep ==
  ASSUME GatingInv, BudgetNotGated, AllFunded, [ApprovalsNext]_avars
  PROVE  AllFunded'
<1> SUFFICES ASSUME NEW r \in Requests
             PROVE  Funded(req[r])'
  BY DEF AllFunded
<1>1. Shape /\ GatesInv
  BY DEF GatingInv, GatesInv
<1>2. CASE req'[r] = req[r]
  BY <1>2, FundedKept DEF AllFunded
<1>3. ASSUME NEW s \in Requests, Handle(s)
      PROVE  Funded(req[r])'
  BY <1>1, <1>2, <1>3, HandleFunded, HandleReq
<1>4. ASSUME NEW s \in Requests, NEW t \in Task, Admit(s, t)
      PROVE  Funded(req[r])'
  <2>1. CASE s = r
    <3>1. /\ req'[r].at \in {"gates", "discard", "budget"} /\ req'[r].task = t /\ gate' = gate
          /\ \A q \in Requests : q # r => req'[q] = req[q]
      BY <1>1, <1>4, <2>1, AdmitStep
    <3>2. Untouched(t) /\ Alone(t)
      BY <1>1, <1>4, AdmitStep DEF GatesInv, NoneUntouched
    <3>3. req'[r].at = "gates" => BudgetClear(t)'
      BY <3>1, <3>2, GatedFacts DEF BudgetClear, Untouched, Alone
    <3>4. QED
      BY <3>1, <3>3 DEF Funded, BudgetClear, Looping, Looped
  <2>2. QED
    BY <1>1, <1>2, <1>4, <2>1, AdmitStep
<1>5. ASSUME NEW s \in Requests, NEW t \in Task, NEW a \in Action,
             NEW call \in {"approve", "reject"}, Request(s, call, t, a)
      PROVE  Funded(req[r])'
  <2>1. req'[r] = req[r] \/ req'[r].at = "decide"
    BY <1>1, <1>5, RequestStep
  <2>2. QED
    BY <1>2, <2>1 DEF Funded, Looping, Looped
<1>6. CASE UNCHANGED <<gate, req>> \/ \E t \in Task : ReadGates(t)
  BY <1>2, <1>6 DEF ReadGates
<1>7. CASE ApprovalsCrash
  BY <1>7 DEF ApprovalsCrash, Idle, Funded, Looping, Looped
<1>8. QED
  BY <1>3, <1>4, <1>5, <1>6, <1>7, Moves

LEMMA PassesFunded ==
  ASSUME AllFunded, NEW t \in Task, Passes(t)
  PROVE  BudgetClear(t)
BY DEF AllFunded, Passes, Funded, Reread, FlagGates, Looping, Looped

DrainsFunded == \A w \in Worker : DrainList(w) =>
                  \A t \in Task : status[t] = "queued" => BudgetClear(t)

FundedInv == LaunchInv /\ AllFunded /\ \A t \in Task : Launched(t) => BudgetClear(t)

LEMMA FundedInvStep ==
  ASSUME FundedInv, BudgetNotGated, [ApprovalsNext]_avars, DrainsFunded \/ UNCHANGED avars
  PROVE  FundedInv'
<1>1. LaunchInv /\ LaunchInv' /\ GatingInv /\ AllFunded /\ AllFunded'
  BY LaunchStep, FundedStep DEF FundedInv, LaunchInv
<1>2. ASSUME NEW t \in Task, Launched(t)'
      PROVE  BudgetClear(t)'
  <2>1. CASE Launched(t)
    BY <1>1, <2>1, BudgetClearKept DEF FundedInv, LaunchInv
  <2>2. CASE Passes(t)
    BY <1>1, <2>2, PassesFacts, PassesFunded, BudgetClearKept
  <2>3. CASE Drained(t) /\ DrainsFunded
    <3>1. BudgetClear(t) /\ status[t] = "queued"
      BY <2>3 DEF Drained, DrainsFunded
    <3>2. QED
      BY <1>1, <3>1, BudgetClearKept
  <2>4. CASE UNCHANGED avars
    BY <1>2, <2>1, <2>4 DEF Launched, Started, Coroutine, Waiting, Seen, Creating, avars, vars, poolVars,
       historyVars, handlerVars, gateVars
  <2>5. QED
    BY <1>1, <1>2, <2>1, <2>2, <2>3, <2>4, LaunchedStep
<1>3. QED
  BY <1>1, <1>2 DEF FundedInv

LEMMA FundedInvStart == ApprovalsInit => FundedInv
<1>1. ApprovalsInit => AllFunded
  BY DEF ApprovalsInit, AllFunded, Funded, Idle, Looping, Looped
<1>2. ApprovalsInit => \A t \in Task : ~Launched(t)
  BY DEF ApprovalsInit, Init, Launched, Started, Coroutine, Waiting, Seen
<1>3. QED
  BY <1>1, <1>2, LaunchStart DEF FundedInv

LEMMA FundedMeans == FundedInv => BudgetHoldsRun
BY DEF FundedInv, Launched, Started, BudgetClear, BudgetHoldsRun

(* No task runs, or has run, whose budget gate is pending or rejected,     *)
(* unless a drain took it with the gate in that state, or still to be      *)
(* inserted by its create handler.                                         *)
THEOREM BudgetHoldsRunTheorem ==
  BudgetNotGated => (ApprovalsSpec /\ [][DrainsFunded]_avars => []BudgetHoldsRun)
<1> SUFFICES ASSUME BudgetNotGated
             PROVE  ApprovalsSpec /\ [][DrainsFunded]_avars => []BudgetHoldsRun
  OBVIOUS
<1>1. FundedInv /\ [ApprovalsNext]_avars /\ [DrainsFunded]_avars => FundedInv'
  BY FundedInvStep
<1>2. QED
  BY <1>1, FundedInvStart, FundedMeans, PTL DEF ApprovalsSpec

(* A task that is alone in the pool never runs past its budget gate.       *)
THEOREM SingleTaskBudget ==
  NumTasks = 1 /\ BudgetNotGated => (ApprovalsSpec => []BudgetHoldsRun)
<1> SUFFICES ASSUME NumTasks = 1, BudgetNotGated
             PROVE  ApprovalsSpec => []BudgetHoldsRun
  OBVIOUS
<1>1. FundedInv => DrainsFunded
  BY AloneDrains DEF FundedInv, DrainsFunded
<1>2. FundedInv /\ [ApprovalsNext]_avars => FundedInv'
  BY <1>1, FundedInvStep
<1>3. QED
  BY <1>2, FundedInvStart, FundedMeans, PTL DEF ApprovalsSpec

-----------------------------------------------------------------------------
(* The pool under the composition.  A step of Approvals is one of the pool *)
(* or writes to a row from a handler, and then leaves coroutines, slots    *)
(* and containers alone.                                                   *)
RowStep(r) ==
  \/ Discard(r) \/ Park(r) \/ Resume(r) \/ Reread(r) \/ RejectFail(r)
  \/ InsertGate(r) \/ AnswerError(r)

LEMMA PoolOrRow ==
  ASSUME Shape, [ApprovalsNext]_avars
  PROVE  [Next]_vars \/ \E r \in Requests : RowStep(r)
<1>1. ASSUME NEW r \in Requests, Handle(r), ~RowStep(r)
      PROVE  [Next]_vars
  <2>1. CASE Abandon(r)
    <3>1. req[r].task \in Task
      BY DEF Shape, Handler
    <3>2. QED
      BY <2>1, <3>1 DEF Abandon, Next
  <2>2. CASE InsertBudgetGate(r) \/ AutoApprove(r) \/ FlagGates(r) \/ DecideGate(r)
             \/ ApproveRefetch(r) \/ ApproveList(r) \/ StillPending(r)
    BY <2>2 DEF InsertBudgetGate, AutoApprove, FlagGates, DecideGate, ApproveRefetch, ApproveList,
       StillPending
  <2>3. CASE ApproveCheck(r) \/ ApproveClear(r) \/ RejectRefetch(r) \/ PolicyRaises(r)
    BY <2>3 DEF ApproveCheck, ApproveClear, RejectRefetch, PolicyRaises
  <2>4. QED
    BY <1>1, <2>1, <2>2, <2>3 DEF Handle, RowStep
<1>2. ASSUME NEW r \in Requests, NEW t \in Task, Admit(r, t)
      PROVE  [Next]_vars
  BY <1>2 DEF Admit, Next
<1>3. ASSUME NEW r \in Requests, NEW t \in Task, NEW a, NEW call, Request(r, call, t, a)
      PROVE  [Next]_vars
  BY <1>3 DEF Request
<1>4. ASSUME NEW t \in Task, SubmitTask(t) \/ ReadGates(t) \/ \E a \in Action : BecomeDue(t, a)
      PROVE  [Next]_vars
  BY <1>4 DEF SubmitTask, ReadGates, BecomeDue, Next
<1>5. CASE ServerStep \/ ApprovalsCrash \/ StartServing \/ \E t \in Task : RecoverOrphan(t)
  BY <1>5 DEF ApprovalsCrash, Next, Restart
<1>6. CASE UNCHANGED avars
  BY <1>6 DEF avars
<1>7. QED
  BY <1>1, <1>2, <1>3, <1>4, <1>5, <1>6 DEF ApprovalsNext

(* What such a write does to the row of the handler's task.                *)
LEMMA RowStepWrites ==
  ASSUME Shape, TypeOK, NEW r \in Requests, RowStep(r)
  PROVE  /\ UNCHANGED <<box, mode, poolVars, cancelling, deleting, historyVars>>
         /\ TypeOK'
         /\ req[r].task \in Task /\ req[r].at # "idle"
         /\ \A t \in Task : \/ status'[t] = status[t]
                            \/ /\ t = req[r].task
                               /\ \/ Discard(r) /\ status'[t] = "deleted"
                                  \/ Park(r) /\ status'[t] = "pending_approval"
                                  \/ Resume(r) /\ status'[t] = "queued"
                                  \/ RejectFail(r) /\ status'[t] = "failed"
<1>1. /\ req[r].task \in Task
      /\ {"deleted", "pending_approval", "queued", "failed"} \subseteq Status
  BY DEF Shape, Handler, Status, Cancellable, Outcome
<1> USE DEF poolVars, handlerVars, historyVars, rowVars
<1>2. CASE Discard(r)
  <2>1. status' \in [Task -> Status] /\ cid' \in [Task -> BOOLEAN] /\ submitting' \subseteq Task
    BY <1>1, <1>2 DEF Discard, TypeOK
  <2>2. QED
    BY <1>1, <1>2, <2>1 DEF Discard, TypeOK
<1>3. CASE Park(r)
  <2>1. status' \in [Task -> Status] /\ submitting' \subseteq Task
    BY <1>1, <1>3 DEF Park, SetStatus, TypeOK
  <2>2. QED
    BY <1>1, <1>3, <2>1 DEF Park, SetStatus, TypeOK
<1>4. CASE Resume(r)
  <2>1. status' \in [Task -> Status]
    BY <1>1, <1>4 DEF Resume, SetStatus, TypeOK
  <2>2. QED
    BY <1>1, <1>4, <2>1 DEF Resume, SetStatus, TypeOK
<1>5. CASE RejectFail(r)
  <2>1. status' \in [Task -> Status]
    BY <1>1, <1>5 DEF RejectFail, SetStatus, TypeOK
  <2>2. QED
    BY <1>1, <1>5, <2>1 DEF RejectFail, SetStatus, TypeOK
<1>6. CASE Reread(r) \/ InsertGate(r) \/ AnswerError(r)
  <2>1. submitting' \subseteq Task
    BY <1>1, <1>6 DEF Reread, InsertGate, AnswerError, TypeOK
  <2>2. QED
    BY <1>1, <1>6, <2>1 DEF Reread, InsertGate, AnswerError, TypeOK
<1>7. QED
  BY <1>2, <1>3, <1>4, <1>5, <1>6 DEF RowStep

(* The accounts of the pool, and of rows and containers, in the whole.     *)
Accounts == TypeOK /\ SlotInv /\ NoDoubleSchedule

LEMMA AccountsStep ==
  ASSUME Shape, Accounts, [ApprovalsNext]_avars
  PROVE  /\ Accounts'
         /\ "down" \notin Events /\ ActiveOwned => ActiveOwned'
         /\ {"crash", "docker"} \intersect Events = {} /\ BoxHeld => BoxHeld'
<1>1. CASE [Next]_vars
  BY <1>1, TypeStep, SlotStep, ScheduleStep, OwnedStep, BoxHeldStep DEF Accounts
<1>2. ASSUME NEW r \in Requests, RowStep(r)
      PROVE  /\ Accounts'
             /\ ActiveOwned => ActiveOwned'
             /\ BoxHeld => BoxHeld'
  <2>1. UNCHANGED <<box, mode, pc, scheduled, free>> /\ TypeOK'
    BY <1>2, RowStepWrites DEF Accounts, poolVars
  <2>2. \A t \in Task : status'[t] \in Active => status'[t] = status[t]
    BY <1>2, RowStepWrites DEF Accounts, Active
  <2>3. Accounts'
    BY <2>1 DEF Accounts, SlotInv, SlotAccounting, NoDoubleSchedule, Holders, LiveWorkers
  <2>4. QED
    BY <2>1, <2>2, <2>3 DEF ActiveOwned, BoxHeld
<1>3. QED
  BY <1>1, <1>2, PoolOrRow

LEMMA AccountsStart == ApprovalsInit => Accounts /\ ActiveOwned /\ BoxHeld
<1>1. Init => Accounts
  BY Initial DEF IInv, Accounts
<1>2. Init => ActiveOwned /\ BoxHeld
  BY DEF Init, ActiveOwned, BoxHeld
<1>3. QED
  BY <1>1, <1>2 DEF ApprovalsInit

LEMMA ShapeHolds == ApprovalsSpec => []Shape
<1>1. GatingInv => Shape
  BY DEF GatingInv, GatesInv
<1>2. QED
  BY <1>1, GatingInvariant, PTL

(* With admission, approvals and expiry added, no slot is lost or doubled  *)
(* and a task has one coroutine at most; also in the drain race.           *)
THEOREM ComposedSlots == ApprovalsSpec => [](SlotAccounting /\ NoDoubleSchedule)
<1>1. Accounts => SlotAccounting /\ NoDoubleSchedule
  BY DEF Accounts, SlotInv
<1>2. Shape /\ Accounts /\ [ApprovalsNext]_avars => Accounts'
  BY AccountsStep
<1>3. QED
  BY <1>1, <1>2, AccountsStart, ShapeHolds, PTL DEF ApprovalsSpec

(* Rows in setup or running have their coroutine in the composition too.   *)
THEOREM ComposedRows ==
  ASSUME "down" \notin Events
  PROVE  ApprovalsSpec => []ActiveHasRunner
<1>1. Accounts /\ ActiveOwned => ActiveHasRunner
  BY DEF ActiveOwned, ActiveHasRunner, Owning
<1>2. Shape /\ Accounts /\ ActiveOwned /\ [ApprovalsNext]_avars => Accounts' /\ ActiveOwned'
  BY AccountsStep
<1>3. QED
  BY <1>1, <1>2, AccountsStart, ShapeHolds, PTL DEF ApprovalsSpec

(* And containers stay within the pool, under the conditions of            *)
(* ContainersFit.                                                          *)
THEOREM ComposedContainers ==
  ASSUME {"crash", "docker"} \intersect Events = {}
  PROVE  ApprovalsSpec => []ContainersWithinSlots
<1>1. Accounts /\ BoxHeld => ContainersWithinSlots
  BY HeldWithinSlots DEF Accounts
<1>2. Shape /\ Accounts /\ BoxHeld /\ [ApprovalsNext]_avars => Accounts' /\ BoxHeld'
  BY AccountsStep
<1>3. QED
  BY <1>1, <1>2, AccountsStart, ShapeHolds, PTL DEF ApprovalsSpec

-----------------------------------------------------------------------------
(* Who holds what: a task has one create handler at most, and its budget   *)
(* gate one decider, since the second finds it decided.                    *)
OneCreator ==
  \A r, s \in Requests :
    req[r].call = "create" /\ req[s].call = "create" /\ req[r].task = req[s].task => r = s

Deciding(h) == h.call # "create" /\ h.at \notin {"idle", "decide"} /\ h.action = Budget

OneDecider ==
  \A r \in Requests : Deciding(req[r]) =>
    /\ gate[req[r].task][Budget] \in {"approved", "rejected"}
    /\ \A s \in Requests : Deciding(req[s]) /\ req[s].task = req[r].task => s = r

Parking == {"budget", "park", "discard"}
CreatorsPark == \A r \in Requests : req[r].at \in Parking => req[r].call = "create"

BootHandlers == mode = "boot" => \A r \in Requests : req[r].at = "idle"

Handlers == OneCreator /\ OneDecider /\ CreatorsPark /\ BootHandlers

(* From the decision of a parked task's budget gate to the write of its    *)
(* row.                                                                    *)
Resuming(h) ==
  h.call # "create" /\ h.at \in {"list", "gates", "auto", "still", "resume", "fail"}

(* How a handler gets to the awaits at which it counts on a parked row.    *)
LEMMA Turns ==
  ASSUME Shape, NEW r \in Requests, Handle(r)
  PROVE  /\ req'[r].at \in {"park", "discard"} => InsertBudgetGate(r)
         /\ req'[r].at = "reread" => Resume(r)
         /\ req'[r].at = "fail" => RejectRefetch(r) /\ Resumes(r)
         /\ req'[r].at \in {"list", "gates", "auto", "still", "resume", "fail"} => UNCHANGED vars
<1>1. Ends(r) => req'[r].at = "idle"
  BY EndsStep DEF Idle
<1>2. \A at \in At : Goes(r, at) => req'[r].at = at
  BY GoesStep
<1>3. CASE Abandon(r) \/ Discard(r) \/ Park(r) \/ Reread(r) \/ ApproveClear(r) \/ RejectFail(r)
           \/ AnswerError(r)
  BY <1>1, <1>3 DEF Abandon, Discard, Park, Reread, ApproveClear, RejectFail, AnswerError
<1>4. CASE InsertBudgetGate(r) \/ ApproveCheck(r) \/ PolicyRaises(r)
  <2>1. \/ InsertBudgetGate(r) /\ Goes(r, "park")
        \/ Ends(r) \/ Goes(r, "clear") \/ Goes(r, "raised")
    BY <1>4 DEF InsertBudgetGate, ApproveCheck, PolicyRaises
  <2>2. QED
    BY <1>1, <1>2, <2>1 DEF At
<1>5. CASE RejectRefetch(r)
  <2>1. Ends(r) \/ (Goes(r, "fail") /\ Resumes(r) /\ UNCHANGED vars)
    BY <1>5 DEF RejectRefetch
  <2>2. QED
    BY <1>1, <1>2, <1>5, <2>1 DEF At
<1>6. CASE DecideGate(r) \/ ApproveRefetch(r) \/ ApproveList(r)
  <2>1. /\ UNCHANGED vars
        /\ \/ Ends(r) \/ Goes(r, "refetch") \/ Goes(r, "has") \/ Goes(r, "list")
           \/ Goes(r, "gates")
    BY <1>6 DEF DecideGate, ApproveRefetch, ApproveList
  <2>2. QED
    BY <1>1, <1>2, <2>1 DEF At
<1>7. CASE FlagGates(r)
  <2>1. UNCHANGED vars /\ (Ends(r) \/ Goes(r, "still"))
    BY <1>7 DEF FlagGates
  <2>2. QED
    BY <1>1, <1>2, <2>1 DEF At
<1>8. CASE Resume(r)
  <2>1. Goes(r, "reread")
    BY <1>8 DEF Resume
  <2>2. QED
    BY <1>2, <1>8, <2>1 DEF At
<1>9. CASE InsertGate(r) \/ AutoApprove(r)
  <2>1. Ends(r) \/ (Advances(r) /\ UNCHANGED vars)
    BY <1>9 DEF InsertGate, AutoApprove, Advances, vars, handlerVars
  <2>2. QED
    BY <1>1, <2>1, LoopStep
<1>10. CASE StillPending(r)
  BY <1>10, StillStep DEF StillPending
<1>11. QED
  BY <1>3, <1>4, <1>5, <1>6, <1>7, <1>8, <1>9, <1>10 DEF Handle

(* A handler that goes on is the handler it was.                           *)
LEMMA SameHandler ==
  ASSUME GatingInv, NEW q \in Requests, Handle(q), NEW r \in Requests, req'[r].at # "idle"
  PROVE  /\ req[r].at # "idle"
         /\ req'[r].call = req[r].call /\ req'[r].task = req[r].task
         /\ req'[r].action = req[r].action
         /\ r # q => req'[r] = req[r]
BY HandleReq DEF GatingInv, GatesInv, SameRequest, Idle

LEMMA OneCreatorStep ==
  ASSUME GatingInv, GatingInv', OneCreator, [ApprovalsNext]_avars
  PROVE  OneCreator'
<1> SUFFICES ASSUME NEW r \in Requests, NEW s \in Requests, req'[r].call = "create",
                    req'[s].call = "create", req'[r].task = req'[s].task
             PROVE  r = s
  BY DEF OneCreator
<1>1. Shape /\ NoneUntouched
  BY DEF GatingInv, GatesInv
<1>2. \A q \in Requests : /\ req[q].at = "idle" => req[q].call # "create"
                          /\ req'[q].at = "idle" => req'[q].call # "create"
  BY DEF GatingInv, Progress, InProgress
<1>3. CASE req'[r] = req[r] /\ req'[s] = req[s]
  BY <1>3 DEF OneCreator
<1>4. ASSUME NEW q \in Requests, Handle(q)
      PROVE  r = s
  BY <1>2, <1>4, SameHandler DEF OneCreator
<1>5. ASSUME NEW q \in Requests, NEW t \in Task, Admit(q, t)
      PROVE  r = s
  <2>1. /\ \A p \in Requests : p # q => req'[p] = req[p]
        /\ req'[q].task = t /\ Alone(t)
    BY <1>1, <1>5, AdmitStep DEF NoneUntouched
  <2>2. \A p \in Requests : p # q /\ req'[p].call = "create" => req'[p].task # t
    BY <1>2, <2>1 DEF Alone
  <2>3. QED
    BY <1>3, <2>1, <2>2
<1>6. ASSUME NEW q \in Requests, NEW t \in Task, NEW a \in Action,
             NEW call \in {"approve", "reject"}, Request(q, call, t, a)
      PROVE  r = s
  BY <1>1, <1>3, <1>6, RequestStep
<1>7. CASE UNCHANGED <<gate, req>> \/ \E t \in Task : ReadGates(t)
  BY <1>3, <1>7 DEF ReadGates
<1>8. CASE ApprovalsCrash
  BY <1>8 DEF ApprovalsCrash, Idle
<1>9. QED
  BY <1>4, <1>5, <1>6, <1>7, <1>8, Moves

(* A decider was one before, or has just found the gate pending.           *)
LEMMA NewDecider ==
  ASSUME GatingInv, [ApprovalsNext]_avars, NEW r \in Requests, Deciding(req'[r])
  PROVE  /\ req'[r].task = req[r].task
         /\ \/ Deciding(req[r])
            \/ /\ Handle(r) /\ gate[req[r].task][Budget] = "pending"
               /\ gate'[req[r].task][Budget] \in {"approved", "rejected"}
<1> USE DEF Deciding
<1>1. Shape
  BY DEF GatingInv, GatesInv
<1>2. CASE req'[r] = req[r]
  BY <1>2
<1>3. ASSUME NEW q \in Requests, Handle(q), q # r
      PROVE  req'[r] = req[r]
  BY <1>1, <1>3, HandleReq
<1>4. CASE Handle(r)
  <2>1. /\ req[r].at # "idle" /\ req[r].call # "create" /\ req[r].action = Budget
        /\ req'[r].task = req[r].task
    BY <1>4, SameHandler
  <2>2. CASE req[r].at = "decide"
    <3>1. DecideGate(r)
      BY <1>4, <2>2 DEF Handle, Abandon, Discard, InsertBudgetGate, Park, InsertGate, AutoApprove,
         FlagGates, ApproveRefetch, ApproveList, StillPending, Resume, Reread, ApproveCheck,
         ApproveClear, RejectRefetch, RejectFail, PolicyRaises, AnswerError
    <3>2. ~Ends(r)
      BY <1>1, EndsStep
    <3>3. /\ Decidable(req[r].task, Budget)
          /\ \E d \in {"approved", "rejected"} : Decide(req[r].task, Budget, d)
      BY <2>1, <3>1, <3>2 DEF DecideGate
    <3>4. req[r].task \in Task /\ Budget \in Action
      BY <1>1, GatedFacts DEF Shape, Handler
    <3>5. QED
      BY <1>1, <1>4, <2>1, <3>3, <3>4 DEF Decide, Decidable, Shape, Gates
  <2>3. QED
    BY <2>1, <2>2
<1>5. ASSUME NEW q \in Requests, NEW t \in Task, Admit(q, t)
      PROVE  req'[r] = req[r]
  BY <1>1, <1>5, AdmitStep
<1>6. ASSUME NEW q \in Requests, NEW t \in Task, NEW a \in Action,
             NEW call \in {"approve", "reject"}, Request(q, call, t, a)
      PROVE  req'[r] = req[r]
  BY <1>1, <1>6, RequestStep
<1>7. CASE UNCHANGED <<gate, req>> \/ \E t \in Task : ReadGates(t)
  BY <1>2, <1>7 DEF ReadGates
<1>8. CASE ApprovalsCrash
  BY <1>8 DEF ApprovalsCrash, Idle
<1>9. QED
  BY <1>2, <1>3, <1>4, <1>5, <1>6, <1>7, <1>8, Moves

LEMMA OneDeciderStep ==
  ASSUME GatingInv, OneDecider, [ApprovalsNext]_avars
  PROVE  OneDecider'
<1>1. GatesInv /\ Budget \in Action /\ \A r \in Requests : req[r].task \in Task
  BY GatedFacts DEF GatingInv, GatesInv, Shape, Handler
<1>2. ASSUME NEW r \in Requests, Deciding(req'[r])
      PROVE  gate'[req'[r].task][Budget] \in {"approved", "rejected"}
  BY <1>1, <1>2, NewDecider, GatesStep DEF OneDecider
<1>3. ASSUME NEW r \in Requests, NEW s \in Requests, Deciding(req'[r]), Deciding(req'[s]),
             req'[s].task = req'[r].task, r # s
      PROVE  FALSE
  <2>1. Deciding(req[r]) \/ Deciding(req[s])
    <3>1. ~(Handle(r) /\ Handle(s) /\ ~Deciding(req[r]) /\ ~Deciding(req[s]))
      <4>1. ASSUME Handle(r)
            PROVE  req'[s] = req[s]
        BY <1>1, <1>3, <4>1, HandleReq DEF GatesInv
      <4>2. QED
        BY <1>3, <4>1
    <3>2. QED
      BY <1>3, <3>1, NewDecider
  <2>2. QED
    BY <1>3, <2>1, NewDecider DEF OneDecider
<1>4. QED
  BY <1>2, <1>3 DEF OneDecider, Deciding

LEMMA CreatorsParkStep ==
  ASSUME GatingInv, CreatorsPark, [ApprovalsNext]_avars
  PROVE  CreatorsPark'
<1> SUFFICES ASSUME NEW r \in Requests, req'[r].at \in Parking
             PROVE  req'[r].call = "create"
  BY DEF CreatorsPark
<1> USE DEF Parking
<1>1. Shape
  BY DEF GatingInv, GatesInv
<1>2. CASE req'[r] = req[r]
  BY <1>2 DEF CreatorsPark
<1>3. ASSUME NEW q \in Requests, Handle(q)
      PROVE  req'[r].call = "create"
  <2>1. CASE q = r
    <3>1. req[r].at = "budget"
      BY <1>1, <1>3, <2>1, HandleReq, Turns DEF InsertBudgetGate
    <3>2. QED
      BY <1>3, <2>1, <3>1, SameHandler DEF CreatorsPark
  <2>2. QED
    BY <1>1, <1>2, <1>3, <2>1, HandleReq
<1>4. ASSUME NEW q \in Requests, NEW t \in Task, Admit(q, t)
      PROVE  req'[r].call = "create"
  BY <1>1, <1>2, <1>4, AdmitStep
<1>5. ASSUME NEW q \in Requests, NEW t \in Task, NEW a \in Action,
             NEW call \in {"approve", "reject"}, Request(q, call, t, a)
      PROVE  req'[r].call = "create"
  BY <1>1, <1>2, <1>5, RequestStep
<1>6. CASE UNCHANGED <<gate, req>> \/ \E t \in Task : ReadGates(t)
  BY <1>2, <1>6 DEF ReadGates
<1>7. CASE ApprovalsCrash
  BY <1>7 DEF ApprovalsCrash, Idle
<1>8. QED
  BY <1>3, <1>4, <1>5, <1>6, <1>7, Moves

(* Handlers live only while the server serves.                             *)
LEMMA ModeStep ==
  ASSUME GatingInv, [ApprovalsNext]_avars, mode' = "boot"
  PROVE  mode = "boot" \/ ApprovalsCrash
<1>1. ASSUME mode # "boot", ~ApprovalsCrash
      PROVE  FALSE
  <2>1. mode' # mode
    BY <1>1
  <2>2. \A r \in Requests : ~RowStep(r)
    BY <2>1 DEF RowStep, Discard, Park, Resume, Reread, RejectFail, InsertGate, AnswerError
  <2>3. ~UNCHANGED vars
    BY <2>1 DEF vars
  <2>4. \A r \in Requests : ~Handle(r)
    BY <2>1, <2>2, <2>3 DEF Handle, RowStep, Abandon, AbandonCreate, InsertBudgetGate, AutoApprove,
       FlagGates, DecideGate, ApproveRefetch, ApproveList, StillPending, ApproveCheck,
       ApproveClear, RejectRefetch, PolicyRaises
  <2>5. \A r \in Requests, t \in Task :
          ~Admit(r, t) /\ \A a \in Action, call \in {"approve", "reject"} : ~Request(r, call, t, a)
    BY <2>1, <2>3 DEF Admit, CreateTask, Request
  <2>6. \A t \in Task :
          ~SubmitTask(t) /\ ~ReadGates(t) /\ \A a \in Action : ~BecomeDue(t, a)
    BY <2>1, <2>3 DEF SubmitTask, Submit, ReadGates, BecomeDue
  <2>7. \A w \in Worker : ~WorkerStep(w)
    BY <2>1 DEF WorkerStep, Acquire, Fetch, Prepare, CreateContainer, RecordContainer, Boot,
       MarkRunning, SwitchNetwork, Collect, WaitTimeout, HandleException, RemoveContainer,
       Release, DrainCount, DrainList, DrainPick
  <2>8. ~ServerStep
    BY <2>1, <2>7 DEF ServerStep, ContainerExit, CancelRead, CancelKill, CancelWrite, DeleteRead,
       DeleteRow
  <2>9. ~StartServing /\ \A t \in Task : ~RecoverOrphan(t)
    BY <2>1, <1>1 DEF StartServing, RecoverOrphan
  <2>10. QED
    BY <1>1, <2>3, <2>4, <2>5, <2>6, <2>8, <2>9 DEF ApprovalsNext, avars
<1>2. QED
  BY <1>1

LEMMA BootHandlersStep ==
  ASSUME GatingInv, BootHandlers, [ApprovalsNext]_avars
  PROVE  BootHandlers'
<1> SUFFICES ASSUME mode' = "boot", NEW r \in Requests
             PROVE  req'[r].at = "idle"
  BY DEF BootHandlers
<1>1. CASE ApprovalsCrash
  BY <1>1 DEF ApprovalsCrash, Idle
<1>2. CASE mode = "boot"
  <2>1. \A q \in Requests : req[q].at = "idle"
    BY <1>2 DEF BootHandlers
  <2>2. \A q \in Requests : ~Handle(q)
    BY <2>1, HandleReq DEF GatingInv, GatesInv
  <2>3. \A q \in Requests, t \in Task :
          ~Admit(q, t) /\ \A a \in Action, call \in {"approve", "reject"} : ~Request(q, call, t, a)
    BY <1>2 DEF Admit, Request, Starts
  <2>4. QED
    BY <1>1, <2>1, <2>2, <2>3, Moves DEF ReadGates
<1>3. QED
  BY <1>1, <1>2, ModeStep

LEMMA HandlersStart == ApprovalsInit => Handlers
BY DEF ApprovalsInit, Idle, Handlers, OneCreator, OneDecider, Deciding, CreatorsPark, Parking,
   BootHandlers

LEMMA HandlersStep ==
  ASSUME GatingInv, Handlers, [ApprovalsNext]_avars
  PROVE  Handlers'
BY GatingStep, OneCreatorStep, OneDeciderStep, CreatorsParkStep, BootHandlersStep DEF Handlers

-----------------------------------------------------------------------------
(* What a row may hold while a handler has its task.  The code gives no    *)
(* guarantee that a drain leaves a task alone whose create handler is      *)
(* still at work (it is queued from its INSERT on); what follows holds of  *)
(* every behaviour in which drains do.                                     *)
DrainsAdmitted == \A w \in Worker : DrainList(w) =>
                    \A t \in Task : status[t] = "queued" => ~Creating(t)

Unlaunched(t) == ~Launched(t) /\ ~Creating(t)

CreatingRows ==
  \A t \in Task : Creating(t) =>
    ~Launched(t) /\ status[t] \in {"queued", "cancelled", "deleted"}

ParkedRows == \A t \in Task : status[t] = "pending_approval" => Unlaunched(t)

ResumingRows ==
  \A r \in Requests : Resuming(req[r]) =>
    /\ req[r].action = Budget
    /\ status[req[r].task] \in {"pending_approval", "deleted"}
    /\ Unlaunched(req[r].task)

RereadRows ==
  \A r \in Requests : req[r].at = "reread" =>
    /\ req[r].action = Budget
    /\ status[req[r].task] # "pending_approval"
    /\ ~Creating(req[r].task)

(* The resumed row that is in setup by the time its handler submits it: a  *)
(* drain was faster, and that coroutine has the container.                 *)
SetupHeld ==
  \A t \in Task, r \in Requests :
    starts[t] > 0 /\ status[t] = "setup" /\ req[r].at = "reread" /\ req[r].task = t =>
      \E w \in Worker : Job(w) = t /\ pc[w] \in Starting

AdmittedInv ==
  /\ IInv /\ LaunchInv /\ Handlers
  /\ CreatingRows /\ ParkedRows /\ ResumingRows /\ RereadRows /\ SetupHeld

LEMMA AdmittedFacts ==
  ASSUME AdmittedInv
  PROVE  /\ Shape /\ TypeOK /\ GatingInv /\ CreatePath
         /\ \A r \in Requests : /\ req[r].task \in Task
                                /\ req[r].at # "idle" => status[req[r].task] # "none"
BY DEF AdmittedInv, IInv, LaunchInv, GatingInv, GatesInv, NoneUntouched, Alone, Shape, Handler

(* Every write of a row, in the composition.                               *)
LEMMA RowWrites ==
  ASSUME AdmittedInv, [ApprovalsNext]_avars, NEW t \in Task, status'[t] # status[t]
  PROVE  \/ Coroutine(t) /\ status'[t] \in Active \union Outcome
         \/ status[t] = "none" /\ status'[t] = "queued"
         \/ status[t] \in Cancellable /\ status'[t] = "cancelled"
         \/ status[t] \in Active /\ status'[t] = "failed"
         \/ status'[t] = "deleted"
         \/ \E r \in Requests : /\ req[r].task = t
                                /\ \/ Park(r) /\ status'[t] = "pending_approval"
                                   \/ Resume(r) /\ status'[t] = "queued"
                                   \/ RejectFail(r) /\ status'[t] = "failed"
<1>1. CASE [Next]_vars
  <2>1. ASSUME NEW w \in Worker, Job(w) = t,
               Prepare(w) \/ MarkRunning(w) \/ Collect(w) \/ HandleException(w)
        PROVE  Coroutine(t)
    BY <2>1 DEF Coroutine, Prepare, MarkRunning, Collect, HandleException
  <2>2. CancelWrite(t) => status[t] \in Cancellable
    BY DEF CancelWrite, SetStatusIf, CancelExpects, Cancellable
  <2>3. RecoverOrphan(t) => status[t] \in Active
    BY DEF RecoverOrphan, Orphaned
  <2>4. QED
    BY <1>1, <2>1, <2>2, <2>3, StatusWrites, AdmittedFacts DEF Active
<1>2. ASSUME NEW r \in Requests, RowStep(r)
      PROVE  \/ status'[t] = "deleted"
             \/ /\ req[r].task = t
                /\ \/ Park(r) /\ status'[t] = "pending_approval"
                   \/ Resume(r) /\ status'[t] = "queued"
                   \/ RejectFail(r) /\ status'[t] = "failed"
  BY <1>2, RowStepWrites, AdmittedFacts
<1>3. QED
  BY <1>1, <1>2, PoolOrRow, AdmittedFacts

(* A task gets its create handler with its row.                            *)
LEMMA NotCreating ==
  ASSUME GatingInv, [ApprovalsNext]_avars, NEW t \in Task, status[t] # "none", Creating(t)'
  PROVE  \E r \in Requests : /\ req[r].call = "create" /\ req[r].task = t
                             /\ req'[r].call = "create" /\ req'[r].task = t
<1>1. PICK r \in Requests : req'[r].call = "create" /\ req'[r].task = t
  BY DEF Creating
<1>2. Shape
  BY DEF GatingInv, GatesInv
<1>3. CASE req'[r] = req[r]
  BY <1>1, <1>3
<1>4. ASSUME NEW q \in Requests, Handle(q)
      PROVE  req[r].call = "create" /\ req[r].task = t
  <2>1. CASE q = r
    BY <1>1, <1>2, <1>4, <2>1, HandleReq DEF SameRequest, Idle
  <2>2. QED
    BY <1>1, <1>2, <1>4, <2>1, HandleReq
<1>5. ASSUME NEW q \in Requests, NEW u \in Task, Admit(q, u)
      PROVE  req'[r] = req[r]
  BY <1>1, <1>2, <1>5, AdmitStep
<1>6. ASSUME NEW q \in Requests, NEW u \in Task, NEW a \in Action,
             NEW call \in {"approve", "reject"}, Request(q, call, u, a)
      PROVE  req'[r] = req[r]
  BY <1>1, <1>2, <1>6, RequestStep
<1>7. CASE UNCHANGED <<gate, req>> \/ \E u \in Task : ReadGates(u)
  BY <1>1, <1>7 DEF ReadGates
<1>8. CASE ApprovalsCrash
  BY <1>1, <1>8 DEF ApprovalsCrash, Idle
<1>9. QED
  BY <1>1, <1>3, <1>4, <1>5, <1>6, <1>7, <1>8, Moves

(* How a task is launched, if drains leave tasks being created alone: from *)
(* the queue, by the handler that resumed it, or at the end of its create  *)
(* handler.                                                                *)
LEMMA Launching ==
  ASSUME AdmittedInv, [ApprovalsNext]_avars, DrainsAdmitted \/ UNCHANGED avars,
         NEW t \in Task, ~Launched(t), Launched(t)'
  PROVE  \/ ~Creating(t) /\ status[t] = "queued"
         \/ \E r \in Requests : req[r].at = "reread" /\ req[r].task = t
         \/ /\ ~Creating(t)'
            /\ \E r \in Requests :
                 req[r].at = "gates" /\ req[r].call = "create" /\ req[r].task = t
<1>1. CASE UNCHANGED avars
  BY <1>1 DEF Launched, Started, Coroutine, Waiting, Seen, Creating, avars, vars, poolVars,
     historyVars, handlerVars, gateVars
<1>2. CASE Drained(t) /\ DrainsAdmitted
  BY <1>2 DEF Drained, DrainsAdmitted
<1>3. ASSUME NEW r \in Requests, req[r].task = t, Reread(r)
      PROVE  req[r].at = "reread"
  BY <1>3 DEF Reread
<1>4. ASSUME NEW r \in Requests, req[r].task = t, FlagGates(r), req[r].call = "create"
      PROVE  req[r].at = "gates" /\ ~Creating(t)'
  <2>1. req[r].at = "gates" /\ Ends(r) /\ Shape
    BY <1>4, AdmittedFacts DEF FlagGates
  <2>2. /\ \A s \in Requests : s # r => req'[s] = req[s]
        /\ req'[r].call # "create"
    BY <2>1, EndsStep DEF Idle
  <2>3. OneCreator
    BY DEF AdmittedInv, Handlers
  <2>4. QED
    BY <1>4, <2>1, <2>2, <2>3 DEF Creating, OneCreator
<1>5. Drained(t) \/ Passes(t)
  BY LaunchedStep DEF AdmittedInv
<1>6. QED
  BY <1>1, <1>2, <1>3, <1>4, <1>5 DEF Passes

(* The create handler of a task, and nobody else, moves it while it is     *)
(* being created.                                                          *)
LEMMA CreatorsMoves ==
  ASSUME AdmittedInv, NEW r \in Requests
  PROVE  /\ Resume(r) \/ RejectFail(r) => Unlaunched(req[r].task)
         /\ Park(r) => req[r].call = "create" /\ Creating(req[r].task)
<1>1. CreatePath
  BY AdmittedFacts
<1>2. Resume(r) \/ RejectFail(r) => Resuming(req[r])
  BY <1>1 DEF Resume, RejectFail, Resuming, CreatePath
<1>3. Park(r) => req[r].call = "create"
  BY DEF AdmittedInv, Handlers, CreatorsPark, Parking, Park
<1>4. QED
  BY <1>2, <1>3 DEF AdmittedInv, ResumingRows, Creating

LEMMA CreatingRowsStep ==
  ASSUME AdmittedInv, [ApprovalsNext]_avars, DrainsAdmitted \/ UNCHANGED avars
  PROVE  CreatingRows'
<1> SUFFICES ASSUME NEW t \in Task, Creating(t)'
             PROVE  ~Launched(t)' /\ status'[t] \in {"queued", "cancelled", "deleted"}
  BY DEF CreatingRows
<1>1. CASE status[t] = "none"
  <2>1. ~Launched(t) /\ \A r \in Requests : req[r].at # "idle" => req[r].task # t
    BY <1>1, AdmittedFacts DEF AdmittedInv, LaunchInv
  <2>2. ~Creating(t)
    BY <2>1, AdmittedFacts DEF Creating, CreatePath
  <2>3. ~Launched(t)'
    BY <1>1, <2>1, Launching
  <2>4. PICK q \in Requests : req'[q].call = "create" /\ req'[q].task = t
    BY DEF Creating
  <2>5. req'[q] # req[q]
    BY <2>2, <2>4 DEF Creating
  <2>6. Shape /\ Idle.call # "create"
    BY AdmittedFacts DEF Idle
  <2>7. ASSUME NEW r \in Requests, Handle(r)
        PROVE  FALSE
    BY <2>1, <2>2, <2>4, <2>5, <2>6, <2>7, HandleReq DEF SameRequest
  <2>8. ASSUME NEW r \in Requests, NEW u \in Task, NEW a \in Action,
               NEW call \in {"approve", "reject"}, Request(r, call, u, a)
        PROVE  FALSE
    BY <2>4, <2>5, <2>6, <2>8, RequestStep
  <2>9. ASSUME NEW r \in Requests, NEW u \in Task, Admit(r, u)
        PROVE  status'[t] = "queued"
    <3>1. u = t
      BY <2>4, <2>5, <2>6, <2>9, AdmitStep
    <3>2. QED
      BY <2>6, <2>9, <3>1 DEF Admit, CreateTask, Shape
  <2>10. ~ApprovalsCrash
    BY <2>4, <2>6 DEF ApprovalsCrash
  <2>11. QED
    BY <2>3, <2>5, <2>7, <2>8, <2>9, <2>10, Moves DEF ReadGates
<1>2. CASE status[t] # "none"
  <2>1. PICK r \in Requests : /\ req[r].call = "create" /\ req[r].task = t
                              /\ req'[r].call = "create" /\ req'[r].task = t
    BY <1>2, NotCreating, AdmittedFacts
  <2>2. Creating(t) /\ ~Launched(t) /\ status[t] \in {"queued", "cancelled", "deleted"}
    BY <2>1 DEF Creating, AdmittedInv, CreatingRows
  <2>3. ~Launched(t)'
    BY <2>2, Launching DEF AdmittedInv, RereadRows
  <2>4. ASSUME NEW s \in Requests, Park(s), req[s].task = t
        PROVE  FALSE
    <3>1. s = r
      BY <2>1, <2>4, CreatorsMoves DEF AdmittedInv, Handlers, OneCreator
    <3>2. req'[r].call # "create"
      BY <2>4, <3>1, EndsStep, AdmittedFacts DEF Park, Idle
    <3>3. QED
      BY <2>1, <3>2
  <2>5. ~Coroutine(t)
    BY <2>2 DEF Launched, Started
  <2>6. status'[t] \in {"queued", "cancelled", "deleted"}
    BY <2>2, <2>4, <2>5, RowWrites, CreatorsMoves DEF Unlaunched, Active
  <2>7. QED
    BY <2>3, <2>6
<1>3. QED
  BY <1>1, <1>2

LEMMA ParkedRowsStep ==
  ASSUME AdmittedInv, [ApprovalsNext]_avars, DrainsAdmitted \/ UNCHANGED avars
  PROVE  ParkedRows'
<1> SUFFICES ASSUME NEW t \in Task, status'[t] = "pending_approval"
             PROVE  ~Launched(t)' /\ ~Creating(t)'
  BY DEF ParkedRows, Unlaunched
<1>1. CASE status[t] = "pending_approval"
  <2>1. ~Launched(t) /\ ~Creating(t)
    BY <1>1 DEF AdmittedInv, ParkedRows, Unlaunched
  <2>2. ~Creating(t)'
    BY <1>1, <2>1, NotCreating, AdmittedFacts DEF Creating
  <2>3. ~Launched(t)'
    BY <1>1, <2>1, Launching DEF AdmittedInv, RereadRows, Creating
  <2>4. QED
    BY <2>2, <2>3
<1>2. CASE status[t] # "pending_approval"
  <2>1. PICK r \in Requests : Park(r) /\ req[r].task = t
    BY <1>2, RowWrites DEF Active, Outcome
  <2>2. /\ req[r].call = "create" /\ req[r].at = "park" /\ Creating(t)
        /\ \A s \in Requests : req[s].call = "create" /\ req[s].task = t => s = r
    BY <2>1, CreatorsMoves DEF Park, AdmittedInv, Handlers, OneCreator
  <2>3. ~Creating(t)'
    <3>1. /\ \A s \in Requests : s # r => req'[s] = req[s]
          /\ req'[r].call # "create"
      BY <2>1, EndsStep, AdmittedFacts DEF Park, Idle
    <3>2. QED
      BY <2>2, <3>1 DEF Creating
  <2>4. ~Launched(t)
    BY <2>2 DEF AdmittedInv, CreatingRows
  <2>5. ~Launched(t)'
    BY <2>2, <2>4, Launching DEF AdmittedInv, RereadRows
  <2>6. QED
    BY <2>3, <2>5
<1>3. QED
  BY <1>1, <1>2

(* One handler at a time resumes or fails a task.                          *)
LEMMA SoleDecider ==
  ASSUME AdmittedInv, NEW r \in Requests, NEW s \in Requests, req[s].task = req[r].task,
         Resuming(req[r]), Resuming(req[s]) \/ req[s].at = "reread"
  PROVE  s = r
<1>1. Deciding(req[r])
  BY DEF AdmittedInv, ResumingRows, Resuming, Deciding
<1>2. req[s].at = "reread" => req[s].call # "create"
  BY AdmittedFacts DEF CreatePath
<1>3. Deciding(req[s])
  BY <1>2 DEF AdmittedInv, ResumingRows, RereadRows, Resuming, Deciding
<1>4. QED
  BY <1>1, <1>3 DEF AdmittedInv, Handlers, OneDecider

(* A handler starts to resume or fail a task that it reads as parked.      *)
LEMMA NewResuming ==
  ASSUME AdmittedInv, [ApprovalsNext]_avars, NEW r \in Requests, Resuming(req'[r])
  PROVE  \/ req[r].at # "idle" /\ Resuming(req[r]) /\ SameRequest(r)
         \/ req[r].at # "idle" /\ SameRequest(r) /\ Resumes(r) /\ UNCHANGED vars
<1>1. Shape /\ GatingInv
  BY AdmittedFacts
<1>2. CASE req'[r] = req[r]
  BY <1>2 DEF Resuming, SameRequest
<1>3. CASE Handle(r)
  <2>1. req[r].at # "idle" /\ SameRequest(r) /\ req[r].call # "create"
    BY <1>1, <1>3, SameHandler DEF Resuming, SameRequest
  <2>2. CASE req'[r].at \in {"list", "fail"}
    <3>1. Resumes(r) /\ UNCHANGED vars
      BY <1>1, <1>3, <2>2, Ways, Turns
    <3>2. QED
      BY <2>1, <3>1
  <2>3. CASE req'[r].at \in {"gates", "auto", "still", "resume"}
    <3>1. req[r].at \in {"gates", "auto", "still", "resume", "reread", "list"}
      BY <1>1, <1>3, <2>3, Ways DEF Looping, Looped
    <3>2. req[r].at # "reread"
      <4>1. ASSUME req[r].at = "reread"
            PROVE  Reread(r)
        BY <1>3, <4>1 DEF Handle, Abandon, Discard, InsertBudgetGate, Park, InsertGate,
           AutoApprove, FlagGates, DecideGate, ApproveRefetch, ApproveList, StillPending, Resume,
           ApproveCheck, ApproveClear, RejectRefetch, RejectFail, PolicyRaises, AnswerError
      <4>2. Reread(r) => req'[r].at = "idle"
        BY <1>1, EndsStep DEF Reread, Idle
      <4>3. QED
        BY <2>3, <4>1, <4>2
    <3>3. QED
      BY <2>1, <3>1, <3>2 DEF Resuming
  <2>4. QED
    BY <2>2, <2>3 DEF Resuming
<1>4. ASSUME NEW q \in Requests, Handle(q), q # r
      PROVE  req'[r] = req[r]
  BY <1>1, <1>4, HandleReq
<1>5. ASSUME NEW q \in Requests, NEW u \in Task, Admit(q, u)
      PROVE  req'[r] = req[r]
  BY <1>1, <1>5, AdmitStep DEF Resuming
<1>6. ASSUME NEW q \in Requests, NEW u \in Task, NEW a \in Action,
             NEW call \in {"approve", "reject"}, Request(q, call, u, a)
      PROVE  req'[r] = req[r]
  BY <1>1, <1>6, RequestStep DEF Resuming
<1>7. CASE ApprovalsCrash
  BY <1>7 DEF ApprovalsCrash, Idle, Resuming
<1>8. QED
  BY <1>2, <1>3, <1>4, <1>5, <1>6, <1>7, Moves DEF ReadGates

LEMMA ResumingRowsStep ==
  ASSUME AdmittedInv, [ApprovalsNext]_avars, DrainsAdmitted \/ UNCHANGED avars
  PROVE  ResumingRows'
<1> SUFFICES ASSUME NEW r \in Requests, Resuming(req'[r])
             PROVE  /\ req'[r].action = Budget
                    /\ status'[req'[r].task] \in {"pending_approval", "deleted"}
                    /\ ~Launched(req[r].task)' /\ ~Creating(req[r].task)'
  BY DEF ResumingRows, Resuming, Unlaunched
<1>1. PICK t \in Task : req'[r].task = t /\ req[r].task = t
  BY NewResuming, AdmittedFacts DEF SameRequest
<1>2. SameRequest(r) /\ status[t] # "none"
  BY <1>1, NewResuming, AdmittedFacts
<1>3. CASE Resumes(r) /\ UNCHANGED vars
  <2>1. status'[t] = "pending_approval" /\ req'[r].action = Budget
    BY <1>1, <1>2, <1>3 DEF Resumes, SameRequest, vars, rowVars
  <2>2. ~Launched(t)' /\ ~Creating(t)'
    BY <2>1, ParkedRowsStep DEF ParkedRows, Unlaunched
  <2>3. QED
    BY <1>1, <2>1, <2>2
<1>4. CASE Resuming(req[r])
  <2>1. /\ req[r].action = Budget /\ ~Launched(t) /\ ~Creating(t) /\ ~Coroutine(t)
        /\ status[t] \in {"pending_approval", "deleted"}
    BY <1>1, <1>4 DEF AdmittedInv, ResumingRows, Unlaunched, Launched, Started
  <2>2. ~Creating(t)'
    BY <1>2, <2>1, NotCreating, AdmittedFacts DEF Creating
  <2>3. ASSUME NEW s \in Requests, req[s].at = "reread", req[s].task = t
        PROVE  FALSE
    BY <1>1, <1>4, <2>3, SoleDecider DEF Resuming
  <2>4. ~Launched(t)'
    BY <2>1, <2>3, Launching DEF Creating
  <2>5. ASSUME NEW s \in Requests, Resume(s) \/ RejectFail(s), req[s].task = t
        PROVE  FALSE
    <3>1. Resuming(req[s])
      BY <2>5, AdmittedFacts DEF Resume, RejectFail, Resuming, CreatePath
    <3>2. s = r
      BY <1>1, <1>4, <2>5, <3>1, SoleDecider
    <3>3. Shape /\ (Goes(r, "reread") \/ Ends(r))
      BY <2>5, <3>2, AdmittedFacts DEF Resume, RejectFail
    <3>4. req'[r].at \in {"reread", "idle"}
      BY <3>3, GoesStep, EndsStep DEF At
    <3>5. QED
      BY <3>4 DEF Resuming
  <2>6. status'[t] \in {"pending_approval", "deleted"}
    BY <1>2, <2>1, <2>5, RowWrites, CreatorsMoves DEF Active, Cancellable
  <2>7. QED
    BY <1>1, <1>2, <2>1, <2>2, <2>4, <2>6 DEF SameRequest
<1>5. QED
  BY <1>3, <1>4, NewResuming

LEMMA NewReread ==
  ASSUME AdmittedInv, [ApprovalsNext]_avars, NEW r \in Requests, req'[r].at = "reread"
  PROVE  SameRequest(r) /\ (req[r].at = "reread" \/ (Resume(r) /\ Resuming(req[r])))
<1>1. Shape /\ GatingInv
  BY AdmittedFacts
<1>2. CASE req'[r] = req[r]
  BY <1>2 DEF SameRequest
<1>3. ASSUME NEW q \in Requests, Handle(q)
      PROVE  SameRequest(r) /\ (req[r].at = "reread" \/ (Resume(r) /\ Resuming(req[r])))
  <2>1. CASE q = r
    <3>1. Resume(r) /\ SameRequest(r)
      BY <1>1, <1>3, <2>1, Turns, SameHandler DEF SameRequest
    <3>2. QED
      BY <3>1, AdmittedFacts DEF Resume, Resuming, CreatePath
  <2>2. QED
    BY <1>1, <1>2, <1>3, <2>1, HandleReq
<1>4. ASSUME NEW q \in Requests, NEW u \in Task, Admit(q, u)
      PROVE  req'[r] = req[r]
  BY <1>1, <1>4, AdmitStep
<1>5. ASSUME NEW q \in Requests, NEW u \in Task, NEW a \in Action,
             NEW call \in {"approve", "reject"}, Request(q, call, u, a)
      PROVE  req'[r] = req[r]
  BY <1>1, <1>5, RequestStep
<1>6. CASE ApprovalsCrash
  BY <1>6 DEF ApprovalsCrash, Idle
<1>7. QED
  BY <1>2, <1>3, <1>4, <1>5, <1>6, Moves DEF ReadGates

LEMMA RereadRowsStep ==
  ASSUME AdmittedInv, [ApprovalsNext]_avars
  PROVE  RereadRows'
<1> SUFFICES ASSUME NEW r \in Requests, req'[r].at = "reread"
             PROVE  /\ req'[r].action = Budget
                    /\ status'[req'[r].task] # "pending_approval"
                    /\ ~Creating(req[r].task)'
  BY DEF RereadRows
<1>1. PICK t \in Task : req'[r].task = t /\ req[r].task = t
  BY NewReread, AdmittedFacts DEF SameRequest
<1>2. SameRequest(r) /\ req[r].at # "idle" /\ status[t] # "none"
  BY <1>1, NewReread, AdmittedFacts DEF Resuming
<1>3. req[r].action = Budget /\ ~Creating(t)
  BY <1>1, NewReread DEF AdmittedInv, ResumingRows, RereadRows, Unlaunched
<1>4. ~Creating(t)'
  BY <1>2, <1>3, NotCreating, AdmittedFacts DEF Creating
<1>5. status'[t] # "pending_approval"
  <2>1. CASE req[r].at = "reread"
    <3>1. status[t] # "pending_approval"
      BY <1>1, <2>1 DEF AdmittedInv, RereadRows
    <3>2. QED
      BY <1>3, <3>1, RowWrites, CreatorsMoves DEF Active, Outcome
  <2>2. CASE Resume(r)
    BY <1>1, <2>2, AdmittedFacts DEF Resume, SetStatus, Row, Shape
  <2>3. QED
    BY <2>1, <2>2, NewReread
<1>6. QED
  BY <1>1, <1>2, <1>3, <1>4, <1>5 DEF SameRequest

LEMMA SetupHeldStep ==
  ASSUME AdmittedInv, [ApprovalsNext]_avars
  PROVE  SetupHeld'
<1> SUFFICES ASSUME NEW t \in Task, NEW r \in Requests, starts'[t] > 0, status'[t] = "setup",
                    req'[r].at = "reread", req'[r].task = t
             PROVE  \E w \in Worker : Job(w) = t /\ pc'[w] \in Starting
  BY DEF SetupHeld
<1>1. Shape /\ TypeOK /\ req[r].task = t
  BY NewReread, AdmittedFacts DEF SameRequest
<1>2. ~Resume(r)
  BY <1>1 DEF Resume, SetStatus, Row, Shape
<1>3. req[r].at = "reread"
  BY <1>2, NewReread
<1>4. CASE [Next]_vars /\ status[t] # "setup"
  <2>1. PICK w \in Worker : Job(w) = t /\ Prepare(w)
    BY <1>1, <1>4, StatusWrites DEF Outcome
  <2>2. starts'[t] = starts[t] /\ starts[t] = 0
    BY <2>1 DEF Prepare, historyVars, AdmittedInv, IInv, StartInv, NotYetStarted
  <2>3. QED
    BY <2>2
<1>5. CASE [Next]_vars /\ starts'[t] # starts[t]
  <2>1. PICK w \in Worker : Job(w) = t /\ pc' = [pc EXCEPT ![w] = "record"]
    BY <1>1, <1>5, Starter
  <2>2. QED
    BY <1>1, <2>1 DEF TypeOK, Starting, Boxed
<1>6. CASE [Next]_vars /\ status[t] = "setup" /\ starts'[t] = starts[t]
  <2>1. PICK w \in Worker : Job(w) = t /\ pc[w] \in Starting
    BY <1>1, <1>3, <1>6 DEF AdmittedInv, SetupHeld
  <2>2. ~Crash
    <3>1. BootHandlers'
      BY HandlersStep, AdmittedFacts DEF AdmittedInv, Handlers
    <3>2. QED
      BY <3>1 DEF BootHandlers, Crash
  <2>3. QED
    BY <1>1, <1>6, <2>1, <2>2, SetupKept
<1>7. ASSUME NEW s \in Requests, RowStep(s)
      PROVE  \E w \in Worker : Job(w) = t /\ pc'[w] \in Starting
  <2>1. UNCHANGED <<pc, starts>> /\ status[t] = "setup"
    BY <1>1, <1>7, RowStepWrites DEF poolVars, historyVars
  <2>2. QED
    BY <1>1, <1>3, <2>1 DEF AdmittedInv, SetupHeld
<1>8. QED
  BY <1>1, <1>4, <1>5, <1>6, <1>7, PoolOrRow

(* The writes of handlers keep the invariant of the pool.                  *)
LEMMA RowStepKeeps ==
  ASSUME AdmittedInv, [ApprovalsNext]_avars, NEW r \in Requests, RowStep(r)
  PROVE  IInv'
<1>1. Shape /\ TypeOK /\ req[r].task \in Task /\ req[r].at # "idle" /\ IInv
  BY RowStepWrites, AdmittedFacts DEF AdmittedInv
<1>2. /\ UNCHANGED <<box, mode, pc, scheduled, starts>> /\ TypeOK' /\ Inserted
      /\ Seen' = Seen
  BY <1>1, RowStepWrites, InsertedStep DEF poolVars, historyVars, Seen
<1>3. SlotInv' /\ NoDoubleSchedule'
  BY <1>1, AccountsStep DEF IInv, Accounts
<1>4. BootIdle'
  <2>1. mode # "boot"
    BY <1>1 DEF AdmittedInv, Handlers, BootHandlers
  <2>2. QED
    BY <1>2, <2>1 DEF BootIdle
<1>5. ASSUME NEW t \in Task, Coroutine(t)
      PROVE  status'[t] = status[t] \/ status'[t] \in {"deleted", "pending_approval"}
  <2>1. Launched(t)
    BY <1>5 DEF Launched, Started
  <2>2. QED
    BY <1>1, <2>1, RowStepWrites, CreatorsMoves DEF Unlaunched
<1>6. WritesBeforeOutcome'
  <2>1. ASSUME NEW w \in Worker, pc[w] \in Writing
        PROVE  status'[Job(w)] \notin Outcome
    <3>1. Coroutine(Job(w)) /\ status[Job(w)] \notin Outcome
      BY <1>1, <2>1 DEF Coroutine, Writing, IInv, WritesBeforeOutcome
    <3>2. QED
      BY <1>5, <3>1, JobType DEF Outcome
  <2>2. QED
    BY <1>2, <2>1 DEF WritesBeforeOutcome
<1>7. ASSUME NEW t \in submitting'
      PROVE  t \in submitting \/ (Reread(r) /\ req[r].task = t)
  BY <1>7, HandleSubmitting DEF RowStep, Handle
<1>8. Created'
  <2>1. \A t \in scheduled \union submitting' : t \in Task /\ status[t] # "none"
    BY <1>1, <1>7, AdmittedFacts DEF IInv, Created, TypeOK
  <2>2. \A t \in Seen : t \in Task /\ status[t] # "none"
    BY <1>1, AdmittedFacts DEF IInv, Created, TypeOK, Seen
  <2>3. QED
    BY <1>2, <2>1, <2>2 DEF Created, Inserted
<1>9. StartedNotQueued'
  <2>1. ASSUME NEW t \in Task, status'[t] \in {"none", "queued"}
        PROVE  starts[t] = 0
    <3>1. CASE status'[t] = status[t]
      BY <1>1, <2>1, <3>1 DEF IInv, StartInv, StartedNotQueued
    <3>2. CASE status'[t] # status[t]
      <4>1. Unlaunched(t)
        BY <1>1, <2>1, <3>2, RowStepWrites, CreatorsMoves
      <4>2. starts[t] \in Nat /\ ~(starts[t] > 0)
        BY <1>1, <4>1 DEF Unlaunched, Launched, Started, TypeOK
      <4>3. QED
        BY <4>2
    <3>3. QED
      BY <3>1, <3>2
  <2>2. ASSUME NEW w \in Worker, pc[w] \in {"create"} \union Boxed
        PROVE  status'[Job(w)] # "queued"
    <3>1. Coroutine(Job(w)) /\ status[Job(w)] # "queued"
      BY <1>1, <2>2 DEF Coroutine, Boxed, IInv, StartInv, StartedNotQueued
    <3>2. QED
      BY <1>5, <3>1, JobType
  <2>3. QED
    BY <1>2, <2>1, <2>2 DEF StartedNotQueued
<1>10. StartedInSetup'
  <2>1. ASSUME NEW t \in Task, starts[t] > 0, status'[t] = "setup"
        PROVE  \/ \E w \in Worker : Job(w) = t /\ pc[w] \in Starting
               \/ t \notin scheduled /\ t \notin submitting' /\ t \notin Seen
    <3>1. status[t] = "setup"
      BY <1>1, <2>1, RowStepWrites
    <3>2. Reread(r) /\ req[r].task = t => \E w \in Worker : Job(w) = t /\ pc[w] \in Starting
      BY <2>1, <3>1 DEF Reread, AdmittedInv, SetupHeld
    <3>3. QED
      BY <1>1, <1>7, <2>1, <3>1, <3>2 DEF IInv, StartInv, StartedInSetup
  <2>2. QED
    BY <1>2, <2>1 DEF StartedInSetup
<1>11. RunsAtMostOnce' /\ NotYetStarted'
  BY <1>1, <1>2 DEF IInv, StartInv, RunsAtMostOnce, NotYetStarted
<1>12. QED
  BY <1>2, <1>3, <1>4, <1>6, <1>8, <1>9, <1>10, <1>11 DEF IInv, StartInv

LEMMA AdmittedStep ==
  ASSUME AdmittedInv, [ApprovalsNext]_avars, DrainsAdmitted \/ UNCHANGED avars
  PROVE  AdmittedInv'
<1>1. IInv'
  BY Inductive, RowStepKeeps, PoolOrRow, AdmittedFacts DEF AdmittedInv
<1>2. LaunchInv' /\ Handlers'
  BY LaunchStep, HandlersStep, AdmittedFacts DEF AdmittedInv
<1>3. QED
  BY <1>1, <1>2, CreatingRowsStep, ParkedRowsStep, ResumingRowsStep, RereadRowsStep,
     SetupHeldStep DEF AdmittedInv

LEMMA AdmittedStart == ApprovalsInit => AdmittedInv
<1> SUFFICES ASSUME ApprovalsInit
             PROVE  AdmittedInv
  OBVIOUS
<1>1. IInv /\ LaunchInv /\ Handlers
  BY Initial, LaunchStart, HandlersStart DEF ApprovalsInit
<1>2. \A r \in Requests : req[r] = Idle
  BY DEF ApprovalsInit
<1>3. CreatingRows /\ ResumingRows /\ RereadRows /\ SetupHeld
  BY <1>2 DEF Idle, CreatingRows, Creating, ResumingRows, Resuming, RereadRows, SetupHeld
<1>4. ParkedRows
  BY DEF ApprovalsInit, Init, ParkedRows
<1>5. QED
  BY <1>1, <1>3, <1>4 DEF AdmittedInv

LEMMA AdmittedOutcome ==
  ASSUME AdmittedInv, [ApprovalsNext]_avars, NEW t \in Task, status[t] \in Outcome
  PROVE  status'[t] \in {status[t], "deleted"}
<1>1. CASE [Next]_vars
  BY <1>1, OutcomeKept DEF AdmittedInv
<1>2. ASSUME NEW r \in Requests, RowStep(r)
      PROVE  status'[t] \in {status[t], "deleted"}
  <2>1. Park(r) => req[r].task # t
    BY CreatorsMoves DEF AdmittedInv, CreatingRows, Outcome
  <2>2. Resume(r) \/ RejectFail(r) => Resuming(req[r])
    BY AdmittedFacts DEF Resume, RejectFail, Resuming, CreatePath
  <2>3. Resume(r) \/ RejectFail(r) => req[r].task # t
    BY <2>2 DEF AdmittedInv, ResumingRows, Outcome
  <2>4. QED
    BY <1>2, <2>1, <2>3, RowStepWrites, AdmittedFacts
<1>3. QED
  BY <1>1, <1>2, PoolOrRow, AdmittedFacts

LEMMA AdmittedSlots ==
  ASSUME AdmittedInv, [ApprovalsNext]_avars
  PROVE  [SP!Next]_<<Begun, InSandbox>>
<1>1. CASE [Next]_vars
  BY <1>1, SlotPoolStep DEF AdmittedInv
<1>2. ASSUME NEW r \in Requests, RowStep(r)
      PROVE  UNCHANGED <<Begun, InSandbox>>
  BY <1>2, RowStepWrites, AdmittedFacts DEF Begun, InSandbox, poolVars, historyVars
<1>3. QED
  BY <1>1, <1>2, PoolOrRow, AdmittedFacts

LEMMA AdmittedInvariant ==
  ApprovalsSpec /\ [][DrainsAdmitted]_avars => []AdmittedInv
<1>1. AdmittedInv /\ [ApprovalsNext]_avars /\ [DrainsAdmitted]_avars => AdmittedInv'
  BY AdmittedStep
<1>2. QED
  BY <1>1, AdmittedStart, PTL DEF ApprovalsSpec

(* A handler that resumes a parked task writes its row without looking at  *)
(* it again (api/approvals.py:100-104).  No interleaving of creates,       *)
(* approvals, rejections, cancels, deletes and crashes makes that start a  *)
(* task twice, as long as drains leave tasks alone that are being created. *)
THEOREM ComposedOnce ==
  ApprovalsSpec /\ [][DrainsAdmitted]_avars => []RunsAtMostOnce
<1>1. AdmittedInv => RunsAtMostOnce
  BY DEF AdmittedInv, IInv, StartInv
<1>2. QED
  BY <1>1, AdmittedInvariant, PTL

(* Nor does it, or the park of a create handler, replace an outcome.       *)
THEOREM ComposedOutcomes ==
  ApprovalsSpec /\ [][DrainsAdmitted]_avars => OutcomeIsFinal
<1>1. AdmittedInv /\ [ApprovalsNext]_avars =>
        [\A t \in Task : status[t] \in Outcome => status'[t] \in {status[t], "deleted"}]_vars
  BY AdmittedOutcome
<1>2. QED
  BY <1>1, AdmittedInvariant, PTL DEF ApprovalsSpec, OutcomeIsFinal

(* The composition is still a slot pool.                                   *)
THEOREM ComposedRefines ==
  ApprovalsSpec /\ [][DrainsAdmitted]_avars => ImplementsSlotPool
<1>1. ApprovalsInit => SP!Init
  BY DEF ApprovalsInit, Init, SP!Init, Begun, InSandbox
<1>2. AdmittedInv /\ [ApprovalsNext]_avars => [SP!Next]_<<Begun, InSandbox>>
  BY AdmittedSlots
<1>3. QED
  BY <1>1, <1>2, AdmittedInvariant, PTL DEF ApprovalsSpec, ImplementsSlotPool

(* A task alone in the pool is drained by nobody while it is created, so   *)
(* it runs once and its outcome stays.                                     *)
THEOREM SingleTaskRun ==
  NumTasks = 1 => (ApprovalsSpec => []RunsAtMostOnce /\ OutcomeIsFinal)
<1> SUFFICES ASSUME NumTasks = 1
             PROVE  ApprovalsSpec => []RunsAtMostOnce /\ OutcomeIsFinal
  OBVIOUS
<1>1. AdmittedInv => DrainsAdmitted
  BY AloneDrains DEF AdmittedInv, CreatingRows, DrainsAdmitted
<1>2. AdmittedInv /\ [ApprovalsNext]_avars => AdmittedInv'
  BY <1>1, AdmittedStep
<1>3. AdmittedInv => RunsAtMostOnce
  BY DEF AdmittedInv, IInv, StartInv
<1>4. AdmittedInv /\ [ApprovalsNext]_avars =>
        [\A t \in Task : status[t] \in Outcome => status'[t] \in {status[t], "deleted"}]_vars
  BY AdmittedOutcome
<1>5. QED
  BY <1>2, <1>3, <1>4, AdmittedStart, PTL DEF ApprovalsSpec, OutcomeIsFinal

-----------------------------------------------------------------------------
(* With such drains, a server that does not die in the window and a policy *)
(* that lists no action twice, a queued task is one that is being created  *)
(* or has its gates: nothing else leads to a drain that takes a task       *)
(* without them.                                                           *)
Distinct == \A i, j \in DOMAIN Gated : Gated[i] = Gated[j] => i = j

(* The gates a create handler has yet to insert are missing.               *)
AheadMissing ==
  \A r \in Requests : req[r].call = "create" /\ req[r].at \in Looping =>
    \A i \in DOMAIN Gated :
      req[r].next <= i /\ (req[r].at = "auto" => i # req[r].next) =>
        gate[req[r].task][Gated[i]] = "none"

QueuedGated == \A t \in Task : status[t] = "queued" => Creating(t) \/ GatesMade(t)
QueuedFunded == \A t \in Task : status[t] = "queued" => Creating(t) \/ BudgetClear(t)

LEMMA GateInserted ==
  ASSUME Shape, [ApprovalsNext]_avars, NEW t \in Task, NEW a \in Action,
         gate[t][a] = "none", gate'[t][a] # "none"
  PROVE  \E r \in Requests :
           /\ Handle(r) /\ req[r].task = t
           /\ InsertBudgetGate(r) \/ (Advances(r) /\ a = Gated[req[r].next])
<1>1. gate \in Gates
  BY DEF Shape
<1>2. ASSUME NEW r \in Requests, Handle(r)
      PROVE  /\ req[r].task = t
             /\ InsertBudgetGate(r) \/ (Advances(r) /\ a = Gated[req[r].next])
  <2>1. req[r].task \in Task
    BY DEF Shape, Handler
  <2>2. ASSUME NEW b \in Action, b # a \/ req[r].task # t, Insert(req[r].task, b)
        PROVE  FALSE
    BY <1>1, <2>1, <2>2 DEF Insert, Gates
  <2>3. ASSUME NEW b, NEW d, Decide(req[r].task, b, d)
        PROVE  FALSE
    BY <1>1, <2>1, <2>3 DEF Decide, Decidable, Gates
  <2>4. ASSUME Expire(req[r].task)
        PROVE  FALSE
    BY <1>1, <2>1, <2>4 DEF Expire, Gates
  <2>5. CASE InsertGate(r)
    BY <2>2, <2>5, GatedFacts DEF InsertGate, Advances
  <2>6. CASE InsertBudgetGate(r)
    BY <2>2, <2>6, GatedFacts DEF InsertBudgetGate
  <2>7. CASE AutoApprove(r) \/ DecideGate(r)
    BY <2>3, <2>7 DEF AutoApprove, DecideGate
  <2>8. CASE ApproveList(r)
    BY <2>4, <2>8 DEF ApproveList
  <2>9. CASE Abandon(r) \/ Discard(r) \/ Park(r) \/ FlagGates(r) \/ ApproveRefetch(r)
             \/ StillPending(r) \/ Resume(r) \/ Reread(r)
    BY <2>9 DEF Abandon, Discard, Park, FlagGates, ApproveRefetch, StillPending, Resume, Reread
  <2>10. CASE ApproveCheck(r) \/ ApproveClear(r) \/ RejectRefetch(r) \/ RejectFail(r)
              \/ PolicyRaises(r) \/ AnswerError(r)
    BY <2>10 DEF ApproveCheck, ApproveClear, RejectRefetch, RejectFail, PolicyRaises, AnswerError
  <2>11. QED
    BY <1>2, <2>5, <2>6, <2>7, <2>8, <2>9, <2>10 DEF Handle
<1>3. ASSUME NEW u \in Task, ReadGates(u)
      PROVE  FALSE
  BY <1>1, <1>3 DEF ReadGates, Expire, Gates
<1>4. QED
  BY <1>2, <1>3, Moves DEF Admit, Request, ApprovalsCrash

(* While a task is created, only its create handler inserts its gates.     *)
LEMMA CreatorInserts ==
  ASSUME AdmittedInv, NEW r \in Requests, NEW s \in Requests, req[r].call = "create",
         req[s].task = req[r].task, InsertBudgetGate(s) \/ Advances(s)
  PROVE  s = r
<1>1. req[s].at \in {"budget", "gates", "auto"}
  BY DEF InsertBudgetGate, Advances, AutoApprove, InsertGate
<1>2. CASE req[s].call = "create"
  BY <1>2 DEF AdmittedInv, Handlers, OneCreator
<1>3. CASE req[s].call # "create"
  <2>1. Resuming(req[s])
    BY <1>1, <1>3 DEF AdmittedInv, Handlers, CreatorsPark, Parking, Resuming
  <2>2. ~Creating(req[s].task)
    BY <2>1 DEF AdmittedInv, ResumingRows, Unlaunched
  <2>3. QED
    BY <2>2 DEF Creating
<1>4. QED
  BY <1>2, <1>3

(* Where the loop over the gates goes next.                                *)
LEMMA LoopPlace ==
  ASSUME Shape, NEW r \in Requests, Advances(r)
  PROVE  \/ InsertGate(r) /\ req'[r].at = "gates" /\ req'[r].next = req[r].next + 1
         \/ InsertGate(r) /\ req'[r].at = "auto" /\ req'[r].next = req[r].next
         \/ AutoApprove(r) /\ req'[r].at = "gates" /\ req'[r].next = req[r].next + 1
<1>1. req[r] \in Handler /\ req[r].next + 1 \in Nat /\ req \in [Requests -> Handler]
  BY DEF Shape, Handler
<1>2. CASE InsertGate(r) /\ Goes(r, "auto")
  BY <1>2, GoesStep DEF At
<1>3. CASE AutoApprove(r)
  <2> DEFINE g == [req[r] EXCEPT !.at = "gates"]
  <2>1. g \in Handler /\ g.at = "gates"
    BY <1>1, AtStep DEF At
  <2>2. req' = [req EXCEPT ![r] = [g EXCEPT !.next = req[r].next + 1]]
    BY <1>3, <2>1 DEF AutoApprove
  <2> HIDE DEF g
  <2>3. /\ [g EXCEPT !.next = req[r].next + 1].at = "gates"
        /\ [g EXCEPT !.next = req[r].next + 1].next = req[r].next + 1
    BY <1>1, <2>1, NextStep
  <2>4. QED
    BY <1>1, <1>3, <2>2, <2>3
<1>4. CASE /\ InsertGate(r) /\ req[r].at = "gates"
           /\ req' = [req EXCEPT ![r].next = @ + 1, ![r].made = TRUE]
  <2> DEFINE g == [req[r] EXCEPT !.next = req[r].next + 1]
  <2>1. g \in Handler /\ g.at = "gates" /\ g.next = req[r].next + 1
    BY <1>1, <1>4, NextStep
  <2>2. req' = [req EXCEPT ![r] = [g EXCEPT !.made = TRUE]]
    BY <1>4
  <2> HIDE DEF g
  <2>3. [g EXCEPT !.made = TRUE].at = "gates" /\ [g EXCEPT !.made = TRUE].next = req[r].next + 1
    BY <2>1, MadeStep
  <2>4. QED
    BY <1>1, <1>4, <2>2, <2>3
<1>5. QED
  BY <1>2, <1>3, <1>4 DEF Advances, InsertGate

LEMMA AheadMissingStep ==
  ASSUME AdmittedInv, AheadMissing, Distinct, [ApprovalsNext]_avars
  PROVE  AheadMissing'
<1> SUFFICES ASSUME NEW r \in Requests, req'[r].call = "create", req'[r].at \in Looping,
                    NEW i \in DOMAIN Gated, req'[r].next <= i,
                    req'[r].at = "auto" => i # req'[r].next
             PROVE  gate'[req'[r].task][Gated[i]] = "none"
  BY DEF AheadMissing
<1> USE DEF Looping
<1>1. Shape /\ GatingInv /\ Gated[i] \in Action /\ i \in Nat
  BY AdmittedFacts, GatedFacts
<1>2. ASSUME NEW t \in Task, t = req[r].task, t = req'[r].task, req[r].call = "create",
             gate[t][Gated[i]] = "none", gate'[t][Gated[i]] # "none"
      PROVE  Handle(r) /\ Advances(r) /\ Gated[i] = Gated[req[r].next]
  <2>1. PICK s \in Requests : /\ Handle(s) /\ req[s].task = t
                              /\ InsertBudgetGate(s) \/ (Advances(s) /\ Gated[i] = Gated[req[s].next])
    BY <1>1, <1>2, GateInserted
  <2>2. s = r
    BY <1>2, <2>1, CreatorInserts
  <2>3. ~InsertBudgetGate(r)
    BY <1>1, GoesStep DEF InsertBudgetGate, At
  <2>4. QED
    BY <2>1, <2>2, <2>3
<1>3. CASE req'[r] = req[r]
  <2>1. req[r].task \in Task /\ gate[req[r].task][Gated[i]] = "none"
    BY <1>1, <1>3, AdmittedFacts DEF AheadMissing
  <2>2. ~Advances(r)
    <3>1. req[r].next \in Nat
      BY <1>1 DEF Shape, Handler
    <3>2. ASSUME Advances(r)
          PROVE  req'[r].at # req[r].at \/ req'[r].next = req[r].next + 1
      BY <1>1, <3>2, LoopPlace DEF InsertGate, AutoApprove
    <3>3. req[r].next + 1 # req[r].next
      BY <3>1
    <3>4. QED
      BY <1>3, <3>2, <3>3
  <2>3. QED
    BY <1>2, <1>3, <2>1, <2>2
<1>4. ASSUME Handle(r)
      PROVE  gate'[req'[r].task][Gated[i]] = "none"
  <2>1. /\ req[r].task \in Task /\ req'[r].task = req[r].task /\ req[r].call = "create"
        /\ req[r].next \in Nat
    BY <1>1, <1>4, SameHandler DEF Shape, Handler
  <2>2. Advances(r)
    <3>1. req[r].at \in {"gates", "auto", "budget", "park", "discard", "raised"}
      BY <2>1, AdmittedFacts DEF CreatePath
    <3>2. ~Ends(r) /\ ~InsertBudgetGate(r) /\ ~PolicyRaises(r)
      BY <1>1, GoesStep, EndsStep DEF InsertBudgetGate, PolicyRaises, At
    <3>3. QED
      BY <1>4, <2>1, <3>1, <3>2 DEF Handle, Advances, Abandon, Discard, Park, InsertGate, FlagGates,
         DecideGate, ApproveRefetch, ApproveList, StillPending, Resume, Reread, ApproveCheck,
         ApproveClear, RejectRefetch, RejectFail, AnswerError
  <2>3. /\ req[r].next <= i /\ i # req[r].next
        /\ req[r].at \in Looping
    <3>1. req[r].at \in Looping
      BY <2>2 DEF Advances, InsertGate, AutoApprove
    <3>2. \/ req'[r].next = req[r].next + 1
          \/ req'[r].next = req[r].next /\ req'[r].at = "auto"
      BY <1>1, <2>2, LoopPlace
    <3>3. PICK n \in Nat : n = req[r].next
      BY <2>1
    <3>4. CASE req'[r].next = n + 1
      <4>1. n + 1 <= i
        BY <3>4
      <4>2. n <= i /\ i # n
        BY <1>1, <4>1
      <4>3. QED
        BY <3>1, <3>3, <4>2
    <3>5. CASE req'[r].next = n /\ req'[r].at = "auto"
      BY <3>1, <3>3, <3>5
    <3>6. QED
      BY <3>2, <3>3, <3>4, <3>5
  <2>4. gate[req[r].task][Gated[i]] = "none"
    BY <2>1, <2>3 DEF AheadMissing
  <2>5. Gated[i] # Gated[req[r].next]
    <3>1. req[r].next \in DOMAIN Gated
      BY <1>1, <2>1, <2>3, GatedFacts DEF GatingInv, Progress, InProgress
    <3>2. QED
      BY <2>3, <3>1 DEF Distinct
  <2>6. QED
    BY <1>2, <2>1, <2>4, <2>5
<1>5. ASSUME NEW q \in Requests, Handle(q), q # r
      PROVE  req'[r] = req[r]
  BY <1>1, <1>5, HandleReq
<1>6. ASSUME NEW q \in Requests, NEW t \in Task, Admit(q, t)
      PROVE  gate'[req'[r].task][Gated[i]] = "none"
  <2>1. CASE q = r
    <3>1. req'[r].task = t /\ gate' = gate /\ status[t] = "none"
      BY <1>1, <1>6, <2>1, AdmitStep
    <3>2. QED
      BY <1>1, <3>1 DEF GatingInv, GatesInv, NoneUntouched, Untouched
  <2>2. QED
    BY <1>1, <1>3, <1>6, <2>1, AdmitStep
<1>7. ASSUME NEW q \in Requests, NEW t \in Task, NEW a \in Action,
             NEW call \in {"approve", "reject"}, Request(q, call, t, a)
      PROVE  req'[r] = req[r]
  BY <1>1, <1>7, RequestStep
<1>8. ~ApprovalsCrash
  BY DEF ApprovalsCrash, Idle
<1>9. QED
  BY <1>3, <1>4, <1>5, <1>6, <1>7, <1>8, Moves DEF ReadGates

(* A create handler that leaves its task queued has made its gates, unless *)
(* the policy raised.                                                      *)
LEMMA CreatorLeaves ==
  ASSUME AdmittedInv, AheadMissing, ~Breaks, [ApprovalsNext]_avars, ~ApprovalsCrash,
         NEW t \in Task, Creating(t), ~Creating(t)', status'[t] = "queued"
  PROVE  Passes(t)
<1>1. PICK r \in Requests : req[r].call = "create" /\ req[r].task = t
  BY DEF Creating
<1>2. Shape /\ req'[r] # req[r] /\ ~SameRequest(r)
  BY <1>1, AdmittedFacts DEF Creating, SameRequest
<1>3. req[r].at \in {"gates", "auto", "budget", "park", "discard"}
  BY <1>1, AdmittedFacts DEF CreatePath, GatingInv, Progress, InProgress
<1>4. ASSUME NEW q \in Requests, Handle(q)
      PROVE  q = r
  BY <1>2, <1>4, HandleReq
<1>5. CASE Handle(r)
  <2>1. req'[r] = Idle
    BY <1>2, <1>5, HandleReq
  <2>2. ~Advances(r) /\ ~InsertBudgetGate(r)
    BY <1>2, <2>1, LoopStep, GoesStep DEF InsertBudgetGate, Idle, At
  <2>3. \/ Abandon(r) \/ Discard(r) \/ Park(r) \/ FlagGates(r)
        \/ (InsertGate(r) /\ gate[t][Gated[req[r].next]] # "none")
    BY <1>1, <1>3, <1>5, <2>2 DEF Handle, Advances, DecideGate, ApproveRefetch, ApproveList,
       StillPending, Resume, Reread, ApproveCheck, ApproveClear, RejectRefetch, RejectFail,
       PolicyRaises, AnswerError
  <2>4. CASE Abandon(r) \/ Discard(r) \/ Park(r)
    BY <1>1, <1>2, <2>4, AdmittedFacts DEF Abandon, AbandonCreate, rowVars, Discard, Park, SetStatus,
       Row, Shape
  <2>5. CASE InsertGate(r) /\ gate[t][Gated[req[r].next]] # "none"
    <3>1. /\ req[r].at = "gates" /\ req[r].next \in DOMAIN Gated /\ req[r].next <= req[r].next
      BY <2>5, GatedFacts DEF InsertGate
    <3>2. QED
      BY <1>1, <2>5, <3>1 DEF AheadMissing, Looping
  <2>6. QED
    BY <1>1, <2>3, <2>4, <2>5 DEF Passes
<1>6. ASSUME NEW q \in Requests, NEW u \in Task, Admit(q, u)
      PROVE  FALSE
  <2>1. q = r /\ req[r].at = "idle"
    BY <1>2, <1>6, AdmitStep
  <2>2. QED
    BY <1>3, <2>1
<1>7. ASSUME NEW q \in Requests, NEW u \in Task, NEW a \in Action,
             NEW call \in {"approve", "reject"}, Request(q, call, u, a)
      PROVE  FALSE
  <2>1. q = r /\ req[r].at = "idle"
    BY <1>2, <1>7, RequestStep
  <2>2. QED
    BY <1>3, <2>1
<1>8. QED
  BY <1>2, <1>4, <1>5, <1>6, <1>7, Moves DEF ReadGates

(* How a row comes to be queued with no create handler.                    *)
LEMMA Queues ==
  ASSUME AdmittedInv, AheadMissing, ~Breaks, [ApprovalsNext]_avars, ~ApprovalsCrash,
         NEW t \in Task, status'[t] = "queued", ~Creating(t)'
  PROVE  \/ status[t] = "queued" /\ ~Creating(t)
         \/ Passes(t)
         \/ \E r \in Requests : Resume(r) /\ req[r].task = t
<1>1. CASE Creating(t)
  BY <1>1, CreatorLeaves
<1>2. CASE status[t] = "none"
  <2>1. ~Launched(t) /\ ~Passes(t)
    BY <1>2, PassesFacts, AdmittedFacts DEF AdmittedInv, LaunchInv
  <2>2. CreateTask(t) => t \in submitting'
    BY DEF CreateTask
  <2>3. ~CreateTask(t)
    BY <2>1, <2>2, WaitingStep, AdmittedFacts DEF Waiting, Launched
  <2>4. ~[Next]_vars
    BY <1>2, <2>3, StatusWrites, AdmittedFacts DEF Outcome
  <2>5. ASSUME NEW r \in Requests, RowStep(r)
        PROVE  Resume(r) /\ req[r].task = t
    BY <1>2, <2>5, RowStepWrites, AdmittedFacts
  <2>6. QED
    BY <2>4, <2>5, PoolOrRow, AdmittedFacts
<1>3. CASE ~Creating(t) /\ status[t] \notin {"none", "queued"}
  BY <1>3, RowWrites DEF Active, Outcome
<1>4. QED
  BY <1>1, <1>2, <1>3

LEMMA QueuedGatedStep ==
  ASSUME AdmittedInv, AheadMissing, QueuedGated, [ApprovalsNext]_avars, ~Breaks, ~ApprovalsCrash
  PROVE  QueuedGated'
<1> SUFFICES ASSUME NEW t \in Task, status'[t] = "queued", ~Creating(t)'
             PROVE  GatesMade(t)'
  BY DEF QueuedGated
<1>1. GatingInv /\ GatesInv
  BY AdmittedFacts DEF GatingInv
<1>2. ASSUME NEW r \in Requests, Resume(r), req[r].task = t
      PROVE  GatesMade(t)
  BY <1>1, <1>2 DEF Resume, GatingInv, Progress, InProgress, Looped
<1>3. GatesMade(t)
  BY <1>1, <1>2, Queues, PassesFacts DEF QueuedGated
<1>4. QED
  BY <1>1, <1>3, GatesMadeKept

LEMMA QueuedFundedStep ==
  ASSUME AdmittedInv, AheadMissing, QueuedFunded, AllFunded, BudgetNotGated,
         [ApprovalsNext]_avars, ~Breaks, ~ApprovalsCrash
  PROVE  QueuedFunded'
<1> SUFFICES ASSUME NEW t \in Task, status'[t] = "queued", ~Creating(t)'
             PROVE  BudgetClear(t)'
  BY DEF QueuedFunded
<1>1. GatingInv
  BY AdmittedFacts
<1>2. ASSUME NEW r \in Requests, Resume(r), req[r].task = t
      PROVE  BudgetClear(t) /\ status[t] # "none"
  <2>1. req[r].at = "resume" /\ status[t] # "none"
    BY <1>2, AdmittedFacts DEF Resume
  <2>2. QED
    BY <1>2, <2>1 DEF AllFunded, Funded, Looped
<1>3. BudgetClear(t) /\ status[t] # "none"
  BY <1>1, <1>2, Queues, PassesFacts, PassesFunded DEF QueuedFunded
<1>4. QED
  BY <1>1, <1>3, BudgetClearKept

LEMMA QueuedStart == ApprovalsInit => AheadMissing /\ QueuedGated /\ QueuedFunded
BY DEF ApprovalsInit, Init, AheadMissing, QueuedGated, QueuedFunded, Idle

(* A drain that reads a task between its INSERT and its gates, a crash or  *)
(* a policy that raises in that window (the row stays queued, without      *)
(* gates and without handler) and a policy that lists an action twice are  *)
(* all that breaks GatesBeforeRun: exclude the four and every task has the *)
(* gates of its policy before its agent runs.                              *)
THEOREM AdmittedGates ==
  ASSUME "crash" \notin Events, ~Breaks, Distinct
  PROVE  ApprovalsSpec /\ [][DrainsAdmitted]_avars => []GatesBeforeRun
<1> DEFINE I == AdmittedInv /\ GatedInv /\ AheadMissing /\ QueuedGated
<1>1. ~ApprovalsCrash
  BY DEF ApprovalsCrash, Crash
<1>2. QueuedGated /\ DrainsAdmitted => DrainsGated
  BY DEF QueuedGated, DrainsAdmitted, DrainsGated
<1>3. ApprovalsInit => I
  <2>1. ApprovalsInit => \A t \in Task : ~Launched(t)
    BY DEF ApprovalsInit, Init, Launched, Started, Coroutine, Waiting, Seen
  <2>2. QED
    BY <2>1, AdmittedStart, LaunchStart, QueuedStart DEF GatedInv
<1>4. I /\ [ApprovalsNext]_avars /\ [DrainsAdmitted]_avars => I'
  BY <1>1, <1>2, AdmittedStep, GatedStep, AheadMissingStep, QueuedGatedStep
<1>5. I => GatesBeforeRun
  BY GatedMeans
<1> HIDE DEF I
<1>6. QED
  BY <1>3, <1>4, <1>5, PTL DEF ApprovalsSpec

(* Exclude the same four, and a policy that lists budget_exceeded itself,  *)
(* and no task runs past its budget gate.                                  *)
THEOREM AdmittedBudget ==
  ASSUME "crash" \notin Events, ~Breaks, Distinct, BudgetNotGated
  PROVE  ApprovalsSpec /\ [][DrainsAdmitted]_avars => []BudgetHoldsRun
<1> DEFINE I == AdmittedInv /\ FundedInv /\ AheadMissing /\ QueuedFunded
<1>1. ~ApprovalsCrash
  BY DEF ApprovalsCrash, Crash
<1>2. QueuedFunded /\ DrainsAdmitted => DrainsFunded
  BY DEF QueuedFunded, DrainsAdmitted, DrainsFunded
<1>3. ApprovalsInit => I
  BY AdmittedStart, FundedInvStart, QueuedStart
<1>4. I /\ [ApprovalsNext]_avars /\ [DrainsAdmitted]_avars => I'
  BY <1>1, <1>2, AdmittedStep, FundedInvStep, AheadMissingStep, QueuedFundedStep DEF FundedInv
<1>5. I => BudgetHoldsRun
  BY FundedMeans
<1> HIDE DEF I
<1>6. QED
  BY <1>3, <1>4, <1>5, PTL DEF ApprovalsSpec

=============================================================================
