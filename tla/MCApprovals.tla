---------------------------- MODULE MCApprovals ----------------------------
(* Instances of Approvals for TLC.                                         *)
EXTENDS Approvals

AllNormal == [t \in Task |-> 1]

(* Every task may be over its budget cap, or turned away, or pass.          *)
AnyVerdict == [t \in Task |-> {"passed", "rejected", "requires_approval"}]

(* Every task is over its budget cap.                                      *)
OverBudget == [t \in Task |-> {"requires_approval"}]

(* The first task passes the budget check, the others exceed the cap.      *)
FirstPasses == [t \in Task |-> IF t = 1 THEN {"passed"} ELSE {"requires_approval"}]

CreatePR == <<"create_pr">>
=============================================================================
