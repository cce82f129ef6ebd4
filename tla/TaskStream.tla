----------------------------- MODULE TaskStream -----------------------------
(***************************************************************************)
(* A client that watches a run: the websocket handler stream_task of       *)
(* api/tasks.py polls the transcript and the row of the task once a        *)
(* second, while SandboxRun writes both.  The client connects before the   *)
(* run begins; one that connects later only misses looks at nothing.       *)
(***************************************************************************)
EXTENDS SandboxRun

VARIABLES
  at,    \* the await of the stream handler
  told   \* its last message: "done" with a status, or an error

tvars == <<svars, at, told>>

Reported == {"completed", "failed", "cancelled"}

(* exists(), stat() and, for a file that has grown and is not too large,   *)
(* read.  A file just opened may be empty, or parse no better than half    *)
(* written: then _read_json_async raises an HTTPException, which the       *)
(* handler of parse errors does not catch, and the stream ends.  A whole   *)
(* transcript is sent (once: its size does not change any more).           *)
LookForTranscript ==
  /\ at = "look"
  /\ \/ at' = "status" /\ UNCHANGED told
     \/ files.transcript = "torn" /\ at' = "closed" /\ told' = "error"
  /\ UNCHANGED svars

CheckStatusOnce ==   \* fault: the handler forgets to look at its deadline
  /\ at = "status"
  /\ IF row.status \in Reported
       THEN at' = "closed" /\ told' = row.status
       ELSE at' = "look" /\ UNCHANGED told
  /\ UNCHANGED svars

(* The status, then a second of sleep and the deadline: task_timeout_s and *)
(* a minute after the stream began, whatever the task is doing then.       *)
CheckStatus ==
  /\ at = "status"
  /\ \/ /\ row.status \in Reported
        /\ at' = "closed" /\ told' = row.status
     \/ /\ row.status \notin Reported
        /\ \/ at' = "look" /\ UNCHANGED told
           \/ at' = "closed" /\ told' = "error"
  /\ UNCHANGED svars

-----------------------------------------------------------------------------
StreamInit == SandboxInit /\ at = "look" /\ told = "none"

Poller == LookForTranscript \/ CheckStatus

StreamNext ==
  \/ Poller
  \/ SandboxNext /\ UNCHANGED <<at, told>>

StreamSpec == StreamInit /\ [][StreamNext]_tvars

(* As in SandboxRun; the deadline of the stream is a second outcome of     *)
(* CheckStatus.                                                            *)
StreamFairness ==
  /\ WF_tvars(Host /\ UNCHANGED <<at, told>>)
  /\ SF_tvars(Poll /\ pc' = "except" /\ UNCHANGED <<at, told>>)
  /\ WF_tvars(Poller)
  /\ SF_tvars(CheckStatus /\ at' = "closed")

StreamFairSpec == StreamSpec /\ StreamFairness

-----------------------------------------------------------------------------
(* Every stream closes, also when its task ends as partial or timed_out,   *)
(* which the handler does not take for ends (tasks.py:804).                *)
StreamCloses == at = "look" ~> at = "closed"

(* A client told that its task completed or failed need not ask again: the *)
(* row keeps that status, whatever request was under way.                  *)
DoneIsFinal == [][(told \in {"completed", "failed"}) => row'.status = told]_tvars
=============================================================================
