------------------------- MODULE PullRequestsProofs -------------------------
(***************************************************************************)
(* What PullRequests guarantees for any number of requests and any actions *)
(* a policy gates, checked by TLAPS.                                       *)
(***************************************************************************)
EXTENDS PullRequests, FiniteSetTheorems, TLAPS

USE PullRequestsAssumption

(* The type invariant survives every step.                                 *)
LEMMA TypeStep ==
  ASSUME DeliveryTypeOK, [DeliveryNext]_pvars
  PROVE  DeliveryTypeOK'
<1> USE DEF DeliveryTypeOK, rowVars, gitVars, Undecided, Fetched, Expired, Decided, Goes, Ends,
            Head, Row, Decision, Handler
<1>1. ASSUME NEW r \in Requests, NEW call \in Calls, Arrive(r, call)
      PROVE  DeliveryTypeOK'
  BY <1>1 DEF Arrive, Opening
<1>2. ASSUME NEW r \in Requests, CheckReview(r) \/ CheckGates(r)
      PROVE  DeliveryTypeOK'
  <2>1. gate' \in [Action -> Decision]
    BY <1>2 DEF CheckReview, CheckGates
  <2>2. Expired["create_pr"] \in Decision
    OBVIOUS
  <2>3. QED
    BY <1>2, <2>1, <2>2 DEF CheckReview, CheckGates
<1>3. ASSUME NEW r \in Requests, CheckPending(r) \/ ClearFlag(r) \/ ClearReview(r) \/ Delete(r)
      PROVE  DeliveryTypeOK'
  <2>1. row' \in Row
    <3>1. row \in Row
      OBVIOUS
    <3>2. CASE CheckPending(r)
      BY <3>1, <3>2 DEF CheckPending
    <3>3. CASE ClearFlag(r)
      BY <3>1, <3>3 DEF ClearFlag, SetFlag
    <3>4. CASE ClearReview(r)
      BY <3>1, <3>4 DEF ClearReview, SetReview
    <3>5. CASE Delete(r)
      BY <3>1, <3>5 DEF Delete
    <3>6. QED
      BY <1>3, <3>2, <3>3, <3>4, <3>5
  <2>2. req' \in [Requests -> Handler] /\ diff' \in {"none", "empty", "full"}
    <3>1. req \in [Requests -> Handler] /\ diff \in {"none", "empty", "full"}
      OBVIOUS
    <3>2. CASE CheckPending(r)
      <4>1. \E at \in {"over", "files", "flag"} : req' = [req EXCEPT ![r].at = at]
        BY <3>2 DEF CheckPending, AfterFlag
      <4>2. QED
        BY <3>1, <3>2, <4>1 DEF CheckPending
    <3>3. CASE ClearFlag(r)
      <4>1. \E at \in {"over", "files"} : req' = [req EXCEPT ![r].at = at]
        BY <3>3 DEF ClearFlag, AfterFlag
      <4>2. QED
        BY <3>1, <3>3, <4>1 DEF ClearFlag
    <3>4. CASE ClearReview(r) \/ Delete(r)
      <4>1. req' = [req EXCEPT ![r].at = "over"]
        BY <3>4 DEF ClearReview, Delete
      <4>2. diff' \in {diff, "none"}
        BY <3>4 DEF ClearReview, Delete
      <4>3. QED
        BY <3>1, <4>1, <4>2
    <3>5. QED
      BY <1>3, <3>2, <3>3, <3>4
  <2>3. /\ gate' = gate /\ due' = due /\ auto' = auto /\ repo' = repo
        /\ refs' = refs /\ origin' = origin /\ opened' = opened
    BY <1>3 DEF CheckPending, ClearFlag, ClearReview, Delete
  <2>4. QED
    BY <2>1, <2>2, <2>3
<1>4. ASSUME NEW r \in Requests, ReadDiff(r) \/ MakeBranch(r) \/ Push(r) \/ OpenPR(r)
      PROVE  DeliveryTypeOK'
  BY <1>4 DEF ReadDiff, MakeBranch, Push, OpenPR
<1>5. ASSUME NEW r \in Requests, NEW a \in Action, Decide(r, a)
      PROVE  DeliveryTypeOK'
  BY <1>5 DEF Decide
<1>6. ASSUME ListGates
      PROVE  DeliveryTypeOK'
  BY <1>6 DEF ListGates
<1>7. ASSUME NEW a \in Action, AutoApprove(a)
      PROVE  DeliveryTypeOK'
  BY <1>7 DEF AutoApprove
<1>8. ASSUME AutoCheck \/ AutoClear
      PROVE  DeliveryTypeOK'
  BY <1>8 DEF AutoCheck, AutoClear, SetFlag
<1>9. ASSUME NEW a \in Action, BecomeDue(a)
      PROVE  DeliveryTypeOK'
  BY <1>9 DEF BecomeDue
<1>10. ASSUME UNCHANGED pvars
       PROVE  DeliveryTypeOK'
  BY <1>10 DEF pvars
<1>11. QED
  BY <1>1, <1>2, <1>3, <1>4, <1>5, <1>6, <1>7, <1>8, <1>9, <1>10 DEF DeliveryNext, Handle, Rules

-----------------------------------------------------------------------------
(* No step reopens, redecides or inserts a gate, and what is due stays so. *)
LEMMA GatesSettle ==
  ASSUME DeliveryTypeOK, [DeliveryNext]_pvars
  PROVE  /\ \A a \in Action : gate[a] # "pending" => gate'[a] = gate[a]
         /\ due \subseteq due'
<1> USE DEF DeliveryTypeOK, Decision, rowVars, gitVars, Undecided, Expired, Decided
<1>1. ASSUME NEW r \in Requests, Handle(r)
      PROVE  /\ \A a \in Action : gate[a] # "pending" => gate'[a] = gate[a]
             /\ due \subseteq due'
  BY <1>1 DEF Handle, CheckReview, CheckGates, CheckPending, ClearFlag, ClearReview, Delete,
              ReadDiff, MakeBranch, Push, OpenPR, Decide
<1>2. ASSUME Rules
      PROVE  /\ \A a \in Action : gate[a] # "pending" => gate'[a] = gate[a]
             /\ due \subseteq due'
  BY <1>2 DEF Rules, ListGates, AutoCheck, AutoClear, AutoApprove
<1>3. QED
  BY <1>1, <1>2 DEF DeliveryNext, Arrive, BecomeDue, pvars

-----------------------------------------------------------------------------
(* Opening a pull request takes the one push of the one branch name.       *)
Pushed == opened \union {r \in Requests : req[r].at = "gh"}

BranchInv ==
  /\ "task" \notin origin => Pushed = {}
  /\ \A r, s \in Pushed : r = s

LEMMA BranchStep ==
  ASSUME DeliveryTypeOK, BranchInv, [DeliveryNext]_pvars
  PROVE  BranchInv'
<1> req \in [Requests -> Handler] /\ opened \subseteq Requests
  BY DEF DeliveryTypeOK
<1> USE DEF Handler, Goes, Ends, Pushed, gitVars, rowVars
<1>1. ASSUME NEW r \in Requests, Push(r), origin' # origin
      PROVE  BranchInv'
  <2>1. "task" \notin origin /\ "task" \in origin' /\ opened' = opened
    BY <1>1 DEF Push, Head
  <2>2. req' = [req EXCEPT ![r].at = "gh"]
    BY <1>1 DEF Push
  <2>3. Pushed' \subseteq Pushed \union {r}
    BY <2>1, <2>2
  <2>4. QED
    BY <2>1, <2>3 DEF BranchInv
<1>2. ASSUME NEW r \in Requests, Handle(r), origin' = origin
      PROVE  Pushed' \subseteq Pushed
  <2>1. CASE Push(r)
    <3>1. req' = [req EXCEPT ![r].at = "over"] /\ opened' = opened
      BY <1>2, <2>1 DEF Push, Head
    <3>2. QED
      BY <3>1
  <2>2. CASE OpenPR(r)
    BY <2>2 DEF OpenPR
  <2>3. CASE CheckReview(r) \/ CheckGates(r)
    BY <2>3 DEF CheckReview, CheckGates
  <2>4. CASE CheckPending(r) \/ ClearFlag(r)
    <3>1. \E at \in {"over", "flag", "files"} : req' = [req EXCEPT ![r].at = at]
      BY <2>4 DEF CheckPending, ClearFlag, AfterFlag
    <3>2. opened' = opened
      BY <2>4 DEF CheckPending, ClearFlag
    <3>3. QED
      BY <3>1, <3>2
  <2>5. CASE ClearReview(r) \/ Delete(r) \/ \E a \in Action : Decide(r, a)
    <3>1. \E at \in {"over", "has"} : req' = [req EXCEPT ![r].at = at]
      BY <2>5 DEF ClearReview, Delete, Decide
    <3>2. opened' = opened
      BY <2>5 DEF ClearReview, Delete, Decide
    <3>3. QED
      BY <3>1, <3>2
  <2>6. CASE ReadDiff(r) \/ MakeBranch(r)
    BY <2>6 DEF ReadDiff, MakeBranch
  <2>7. QED
    BY <1>2, <2>1, <2>2, <2>3, <2>4, <2>5, <2>6 DEF Handle
<1>3. ASSUME NEW r \in Requests, NEW call \in Calls, Arrive(r, call)
      PROVE  Pushed' \subseteq Pushed
  BY <1>3 DEF Arrive
<1>4. ASSUME Rules \/ (\E a \in Action : BecomeDue(a)) \/ UNCHANGED pvars
      PROVE  Pushed' \subseteq Pushed /\ origin' = origin
  BY <1>4 DEF Rules, ListGates, AutoCheck, AutoClear, AutoApprove, BecomeDue, pvars
<1>5. ASSUME NEW r \in Requests, Handle(r), origin' # origin
      PROVE  Push(r)
  BY <1>5 DEF Handle, CheckReview, CheckGates, CheckPending, ClearFlag, ClearReview, Delete,
              ReadDiff, MakeBranch, OpenPR, Decide
<1>6. ASSUME Pushed' \subseteq Pushed, origin' = origin
      PROVE  BranchInv'
  BY <1>6 DEF BranchInv
<1>7. ASSUME NEW r \in Requests, NEW call \in Calls, Arrive(r, call)
      PROVE  origin' = origin
  BY <1>7 DEF Arrive
<1>8. QED
  BY <1>1, <1>2, <1>3, <1>4, <1>5, <1>6, <1>7 DEF DeliveryNext

LEMMA OnePR ==
  ASSUME DeliveryTypeOK, BranchInv
  PROVE  AtMostOnePR
<1>1. CASE opened = {}
  BY <1>1, FS_EmptySet DEF AtMostOnePR
<1>2. CASE opened # {}
  <2>1. PICK r \in opened : TRUE
    BY <1>2
  <2>2. opened = {r}
    BY <2>1 DEF BranchInv, Pushed
  <2>3. QED
    BY <2>2, FS_Singleton DEF AtMostOnePR
<1>3. QED
  BY <1>1, <1>2

-----------------------------------------------------------------------------
(* What a handler that got this far knows of the gate and of the review.   *)
MayOpen(r) ==
  \/ gate["create_pr"] = "approved"
  \/ gate["create_pr"] = "none" /\ ~row.review
  \/ req[r].call = "approve-and-create-pr" /\ req[r].saw = "pending"

HandlerOK(r) ==
  /\ req[r].at \in {"review", "gates"} => req[r].call \in Opening
  /\ req[r].at = "gates" => ~row.review \/ gate["create_pr"] = "approved"
  /\ req[r].at \in {"decide", "has", "flag"} =>
       \/ req[r].call \in {"approve", "reject"}
       \/ req[r].call = "approve-and-create-pr" /\ req[r].saw = "pending"
  /\ req[r].at \in {"has", "flag"} => req[r].call # "reject"
  /\ req[r].at \in {"files", "branch", "push", "gh"} => MayOpen(r)

GateInv ==
  /\ row.status # "partial" => ~row.review
  /\ \A r \in Requests : HandlerOK(r)

(* A review, once cleared, is not asked for again.                         *)
LEMMA ReviewStep ==
  ASSUME DeliveryTypeOK, GateInv, [DeliveryNext]_pvars
  PROVE  /\ row'.review => row.review
         /\ row'.status # "partial" => ~row'.review
<1> row \in Row
  BY DEF DeliveryTypeOK
<1> USE DEF Row, GateInv
<1>1. \/ row' = row
      \/ row' = [row EXCEPT !.flag = FALSE]
      \/ row' = [row EXCEPT !.review = FALSE]
      \/ row' = [row EXCEPT !.status = "deleted", !.review = FALSE, !.flag = FALSE]
  <2>1. ASSUME NEW r \in Requests, Handle(r), row' # row
        PROVE  ClearFlag(r) \/ ClearReview(r) \/ Delete(r)
    BY <2>1 DEF Handle, CheckReview, CheckGates, CheckPending, ReadDiff, MakeBranch, Push, OpenPR,
                Decide, rowVars
  <2>2. ASSUME row' # row, ~ \E r \in Requests : Handle(r)
        PROVE  AutoClear
    BY <2>2 DEF DeliveryNext, Rules, ListGates, AutoCheck, AutoApprove, Arrive, BecomeDue, pvars,
                rowVars
  <2>3. QED
    BY <2>1, <2>2 DEF ClearFlag, ClearReview, Delete, AutoClear, SetFlag, SetReview
<1>2. QED
  BY <1>1

LEMMA GateStep ==
  ASSUME DeliveryTypeOK, GateInv, [DeliveryNext]_pvars
  PROVE  GateInv'
<1>1. /\ row'.review => row.review
      /\ row'.status # "partial" => ~row'.review
  BY ReviewStep
<1>2. gate["create_pr"] # "pending" => gate'["create_pr"] = gate["create_pr"]
  BY GatesSettle, PullRequestsAssumption
<1>3. ASSUME NEW r \in Requests, req'[r] = req[r]
      PROVE  HandlerOK(r)'
  BY <1>1, <1>2, <1>3 DEF GateInv, HandlerOK, MayOpen
<1>4. ASSUME NEW r \in Requests, NEW at, req' = [req EXCEPT ![r].at = at],
             at \in {"over", "branch", "push", "gh", "has", "flag", "files"},
             at \in {"branch", "push", "gh"} => req[r].at \in {"files", "branch", "push"},
             at \in {"has", "flag"} => req[r].at \in {"decide", "has"} /\ req[r].call # "reject",
             at = "files" => req[r].at \in {"has", "flag"} /\ req[r].call # "approve"
      PROVE  GateInv'
  <2>1. req \in [Requests -> Handler]
    BY DEF DeliveryTypeOK
  <2>2. req'[r] = [req[r] EXCEPT !.at = at] /\ \A s \in Requests \ {r} : req'[s] = req[s]
    BY <1>4, <2>1
  <2>3. req'[r].at = at /\ req'[r].call = req[r].call /\ req'[r].saw = req[r].saw
    BY <2>1, <2>2 DEF Handler
  <2>4. HandlerOK(r)
    BY DEF GateInv
  <2>5. HandlerOK(r)'
    BY <1>1, <1>2, <1>4, <2>3, <2>4 DEF HandlerOK, MayOpen
  <2>6. QED
    BY <1>1, <1>3, <2>2, <2>5 DEF GateInv
<1>5. ASSUME NEW r \in Requests, Handle(r)
      PROVE  GateInv'
  <2> USE DEF Goes, Ends
  <2>1. CASE CheckReview(r)
    <3>1. CASE Expired["create_pr"] = "approved"
      <4>1. gate'["create_pr"] = "approved" /\ req' = [req EXCEPT ![r].at = "gates"]
        BY <2>1, <3>1 DEF CheckReview
      <4>2. req'[r].at = "gates" /\ req'[r].call = req[r].call /\ \A s \in Requests \ {r} : req'[s] = req[s]
        BY <4>1 DEF DeliveryTypeOK, Handler
      <4>3. HandlerOK(r)'
        BY <2>1, <4>1, <4>2 DEF HandlerOK, GateInv, CheckReview
      <4>4. QED
        BY <1>1, <1>3, <4>2, <4>3 DEF GateInv
    <3>2. CASE Expired["create_pr"] # "approved"
      BY <1>4, <2>1, <3>2 DEF CheckReview
    <3>3. QED
      BY <3>1, <3>2
  <2>2. CASE CheckGates(r)
    <3> DEFINE g == Expired["create_pr"]
    <3>1. req \in [Requests -> Handler] /\ g \in Decision
      BY PullRequestsAssumption DEF DeliveryTypeOK, Expired, Decision
    <3>2. gate'["create_pr"] = g
      BY <2>2 DEF CheckGates
    <3>3. /\ req[r].at = "gates"
          /\ req'[r].saw = g /\ req'[r].call = req[r].call
          /\ req'[r].at = CASE g = "rejected" -> "over"
                            [] g = "pending" -> IF req[r].call = "create-pr" THEN "over" ELSE "decide"
                            [] OTHER -> "files"
          /\ \A s \in Requests \ {r} : req'[s] = req[s]
      BY <2>2, <3>1 DEF CheckGates, Handler
    <3>4. g = "none" => ~row'.review \/ gate'["create_pr"] = "approved"
      BY <1>1, <1>2, <3>3 DEF GateInv, HandlerOK
    <3>5. req[r].call \in Opening
      BY <3>3 DEF GateInv, HandlerOK
    <3>6. HandlerOK(r)'
      BY <3>1, <3>2, <3>3, <3>4, <3>5 DEF HandlerOK, MayOpen, Opening, Decision
    <3>7. QED
      BY <1>1, <1>3, <3>3, <3>6 DEF GateInv
  <2>3. CASE CheckPending(r)
    BY <1>4, <2>3 DEF CheckPending, AfterFlag, GateInv, HandlerOK
  <2>4. CASE ClearFlag(r)
    BY <1>4, <2>4 DEF ClearFlag, AfterFlag
  <2>5. CASE ClearReview(r) \/ Delete(r)
    BY <1>4, <2>5 DEF ClearReview, Delete
  <2>6. CASE ReadDiff(r) \/ MakeBranch(r) \/ Push(r) \/ OpenPR(r)
    BY <1>4, <2>6 DEF ReadDiff, MakeBranch, Push, OpenPR
  <2>7. ASSUME NEW a \in Action, Decide(r, a)
        PROVE  GateInv'
    BY <1>4, <2>7 DEF Decide
  <2>8. QED
    BY <1>5, <2>1, <2>2, <2>3, <2>4, <2>5, <2>6, <2>7 DEF Handle
<1>6. ASSUME NEW r \in Requests, NEW call \in Calls, Arrive(r, call)
      PROVE  GateInv'
  <2>1. req \in [Requests -> Handler]
    BY DEF DeliveryTypeOK
  <2>2. \A s \in Requests \ {r} : req'[s] = req[s]
    BY <1>6, <2>1 DEF Arrive
  <2>3. /\ req'[r].call = call
        /\ req'[r].at = CASE call \in Opening ->
                               IF row.status = "partial" /\ row.review THEN "review" ELSE "gates"
                          [] call = "clear-review" -> "cleared"
                          [] call = "delete" -> "delete"
                          [] OTHER -> "decide"
    BY <1>6, <2>1 DEF Arrive
  <2>4. row' = row /\ gate' = gate
    BY <1>6 DEF Arrive, rowVars
  <2>5. HandlerOK(r)'
    BY <2>3, <2>4, PullRequestsAssumption DEF HandlerOK, Opening, GateInv
  <2>6. QED
    BY <1>1, <1>3, <2>2, <2>5 DEF GateInv
<1>7. ASSUME Rules \/ (\E a \in Action : BecomeDue(a)) \/ UNCHANGED pvars
      PROVE  GateInv'
  <2>1. req' = req
    BY <1>7 DEF Rules, ListGates, AutoCheck, AutoClear, AutoApprove, BecomeDue, pvars
  <2>2. QED
    BY <1>1, <1>3, <2>1 DEF GateInv
<1>8. QED
  BY <1>5, <1>6, <1>7 DEF DeliveryNext

-----------------------------------------------------------------------------
DeliveryInv == DeliveryTypeOK /\ BranchInv /\ GateInv

LEMMA Initially ==
  ASSUME DeliveryInit
  PROVE  DeliveryInv
<1> USE DEF DeliveryInit, Idle
<1>1. DeliveryTypeOK
  <2>1. row \in Row /\ gate \in [Action -> Decision]
    BY DEF Row, Decision
  <2>2. req \in [Requests -> Handler]
    BY DEF Handler, Decision
  <2>3. QED
    BY <2>1, <2>2 DEF DeliveryTypeOK
<1>2. \A r \in Requests : req[r].at = "idle"
  OBVIOUS
<1>3. PICK st \in {"completed", "partial"}, flag \in BOOLEAN :
        row = [status |-> st, review |-> (st = "partial"), flag |-> flag]
  OBVIOUS
<1>4. row.status = st /\ row.review = (st = "partial")
  BY <1>3
<1>5. BranchInv
  BY <1>2 DEF BranchInv, Pushed
<1>6. GateInv
  <2>1. row.status # "partial" => ~row.review
    BY <1>4
  <2>2. QED
    BY <1>2, <2>1 DEF GateInv, HandlerOK
<1>7. QED
  BY <1>1, <1>5, <1>6 DEF DeliveryInv

LEMMA Invariance == DeliverySpec => []DeliveryInv
<1>1. DeliveryInit => DeliveryInv
  BY Initially
<1>2. DeliveryInv /\ [DeliveryNext]_pvars => DeliveryInv'
  BY TypeStep, BranchStep, GateStep DEF DeliveryInv
<1>3. QED
  BY <1>1, <1>2, PTL DEF DeliverySpec

(* The row, the gates and every handler keep their types.                  *)
THEOREM Types == DeliverySpec => []DeliveryTypeOK
<1>1. DeliveryInv => DeliveryTypeOK
  BY DEF DeliveryInv
<1>2. QED
  BY <1>1, Invariance, PTL

(* A task gets at most one pull request, however many requests race.       *)
THEOREM OnePRTheorem == DeliverySpec => []AtMostOnePR
<1>1. DeliveryInv => AtMostOnePR
  BY OnePR DEF DeliveryInv
<1>2. QED
  BY <1>1, Invariance, PTL

(* No pull request is opened against the gate or the review, but for an    *)
(* approve-and-create-pr that saw the gate pending.                        *)
THEOREM GateTheorem == DeliverySpec => PRHonoursGates
<1> DEFINE Honoured ==
      \A r \in opened' \ opened :
        \/ gate["create_pr"] = "approved"
        \/ gate["create_pr"] = "none" /\ ~row.review
        \/ req[r].call = "approve-and-create-pr" /\ req[r].saw = "pending"
<1>1. ASSUME DeliveryInv, [DeliveryNext]_pvars
      PROVE  Honoured
  <2>1. ASSUME NEW s \in Requests, Handle(s)
        PROVE  opened' = opened \/ (OpenPR(s) /\ opened' \subseteq opened \union {s})
    BY <2>1 DEF Handle, CheckReview, CheckGates, CheckPending, ClearFlag, ClearReview, Delete,
                ReadDiff, MakeBranch, Push, OpenPR, Decide, gitVars
  <2>2. opened' = opened \/ \E s \in Requests : Handle(s)
    BY <1>1 DEF DeliveryNext, Arrive, Rules, ListGates, AutoCheck, AutoClear, AutoApprove,
                BecomeDue, pvars, gitVars
  <2>3. ASSUME NEW r \in opened' \ opened
        PROVE  r \in Requests /\ req[r].at = "gh"
    BY <2>1, <2>2, <2>3 DEF OpenPR
  <2>4. QED
    BY <1>1, <2>3 DEF DeliveryInv, GateInv, HandlerOK, MayOpen
<1>2. DeliveryInv /\ [DeliveryNext]_pvars => [Honoured]_pvars
  BY <1>1
<1>3. QED
  BY <1>2, Invariance, PTL DEF DeliverySpec, PRHonoursGates
=============================================================================
