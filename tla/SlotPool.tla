------------------------------ MODULE SlotPool ------------------------------
(***************************************************************************)
(* What the runner pool promises, without its queue, its rows and its      *)
(* coroutines: every task's sandbox runs at most once, and at most         *)
(* MaxConcurrent of them run at a time.  A sandbox may also never run      *)
(* (the task was cancelled, deleted, or failed to start).                  *)
(***************************************************************************)
EXTENDS Naturals, FiniteSets

CONSTANTS Task, MaxConcurrent

VARIABLES
  begun,     \* tasks whose sandbox was started
  running    \* tasks whose sandbox is in the hands of a slot

Init ==
  /\ begun = {}
  /\ running = {}

Begin(t) ==
  /\ t \notin begun
  /\ Cardinality(running) < MaxConcurrent
  /\ begun' = begun \union {t}
  /\ running' = running \union {t}

(* One sandbox ends, or, when the server dies, it loses all of them.       *)
End(S) ==
  /\ S # {}
  /\ S \subseteq running
  /\ running' = running \ S
  /\ UNCHANGED begun

Next == (\E t \in Task : Begin(t)) \/ (\E S \in SUBSET running : End(S))

Spec == Init /\ [][Next]_<<begun, running>>
=============================================================================
