----------------------------- MODULE MCRegistry -----------------------------
(* Instances of Registry for TLC.                                          *)
EXTENDS Registry, TLC

(* An administrator's token and one that may only create tasks.            *)
TwoGrants == {{"admin:tokens", "admin:users", "tasks:create"}, {"tasks:create"}}

(* Rotations, with time; who may see a task after one; the rate limit; users *)
(* against tokens; tasks and tokens without an owner.                        *)
SixMixes ==
  {[does |-> {"create-token", "rotate-token", "revoke-token", "time"}, users |-> 1, tokens |-> 3],
   [does |-> {"create-token", "create-task", "rotate-token"}, users |-> 1, tokens |-> 2],
   [does |-> {"create-token", "create-task", "time"}, users |-> 1, tokens |-> 1],
   [does |-> {"create-user", "delete-user", "create-token"}, users |-> 2, tokens |-> 2],
   [does |-> {"create-user", "delete-user"}, users |-> 3, tokens |-> 0],
   [does |-> {"create-task", "create-token", "delete-user", "crash"}, users |-> 2, tokens |-> 1]}

(* Requests differ in nothing but their name.                              *)
AnyOrder == Permutations(Requests)
=============================================================================
