--------------------------- MODULE MCPullRequests ---------------------------
(* Instances of PullRequests for TLC.                                      *)
EXTENDS PullRequests, TLC

EveryCall ==
  {"create-pr", "approve-and-create-pr", "approve", "reject", "clear-review", "delete"}

(* Requests differ in nothing but their name.                              *)
AnyOrder == Permutations(Requests)
=============================================================================
