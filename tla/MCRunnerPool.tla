---------------------------- MODULE MCRunnerPool ----------------------------
(* Instances of RunnerPool for TLC.                                        *)
EXTENDS RunnerPool

(* The last task asks for a higher priority than the others.               *)
LastIsUrgent == [t \in Task |-> IF t = NumTasks THEN 0 ELSE 1]
=============================================================================
