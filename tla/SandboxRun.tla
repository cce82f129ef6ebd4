----------------------------- MODULE SandboxRun -----------------------------
(***************************************************************************)
(* One run of a task, seen from its three processes: the coroutine         *)
(* run_task_in_container on the host (runner/container.py), the entrypoint *)
(* and executor inside the container (runner/entrypoint.py, executor.py),  *)
(* and the loop that refreshes the egress rules.  They communicate through *)
(* marker and result files in the output directory, through the container  *)
(* itself and through the task's row; a cancel request joins in.           *)
(*                                                                         *)
(* RunnerPool abstracts this run to its awaits `create` ... `clean`.  Here *)
(* an action ends where another of the processes may act: at an await of   *)
(* the host, and after each file the entrypoint writes.                    *)
(***************************************************************************)
EXTENDS Naturals, FiniteSets

CONSTANTS
  Addr,    \* the addresses that DNS may return for the allowed domains
  Events   \* what may go wrong or come in between

ASSUME SandboxAssumption ==
  /\ Addr # {}
  /\ Events \subseteq {"cancel", "kill", "docker", "disk"}

VARIABLES
  pc,      \* the await the host coroutine is suspended at
  row,     \* the task's row: status, error_category, review_required
  known,   \* has the row a container_id
  net,     \* settings.skip_network_isolation and environment
  box,     \* the container, as Docker reports it
  code,    \* its exit code
  step,    \* what the entrypoint is doing
  made,    \* what the executor returned to it
  files,   \* the output directory
  nets,    \* networks the container is attached to
  rules,   \* addresses the OUTPUT chain accepts
  guard,   \* is its last rule, the DROP of everything else, in place
  loop,    \* the refresh loop
  ips,     \* the loop's known_ips
  fresh,   \* new_ips of its current round
  cancel,  \* the next step of the cancel request
  cut      \* history: the container was killed while the host awaited it

hostVars == <<pc, row, known, net>>
boxVars == <<box, code, step, made, files>>
chain == <<nets, rules, guard>>
lives == <<box, code, made, chain>>
loopVars == <<loop, ips, fresh>>
netVars == <<chain, loopVars>>
svars == <<hostVars, boxVars, netVars, cancel, cut>>

Unsettled == {"queued", "setup", "running"}
Reason == {"success", "max_turns", "failed"}
Artifact == {"diff", "audit", "transcript"}
Working == {"drop", "agent"}
Writing == {"result"} \union Artifact

-----------------------------------------------------------------------------
(* The row: update_task writes what it is given, update_task_if_status     *)
(* only over the expected statuses.                                        *)
SetRow(s, c) == row' = [row EXCEPT !.status = s, !.category = c]

SetRowIf(expected, s, c) ==
  row' = IF row.status \in expected THEN [row EXCEPT !.status = s, !.category = c] ELSE row

HostGoes(l) == pc' = l
DockerFails == "docker" \in Events

-----------------------------------------------------------------------------
(* The host up to the wait.  Every await that may raise has a second       *)
(* outcome: the except clause.                                             *)
Start ==
  /\ pc = "start"
  /\ row' = [row EXCEPT !.status = "setup"]
  /\ HostGoes("create")
  /\ UNCHANGED <<known, net, boxVars, netVars, cancel, cut>>

Create ==
  /\ pc = "create"
  /\ \/ /\ box' = "up" /\ step' = "setup" /\ nets' = {"setup"}
        /\ HostGoes("record")
     \/ /\ DockerFails
        /\ HostGoes("except")
        /\ UNCHANGED <<box, step, nets>>
  /\ UNCHANGED <<row, known, net, code, made, files, rules, guard, loop, ips, fresh,
                 cancel, cut>>

Record ==
  /\ pc = "record"
  /\ known' = TRUE
  /\ HostGoes("look")
  /\ UNCHANGED <<row, net, boxVars, netVars, cancel, cut>>

(* `while not setup_marker.exists()`, then one poll of the container.      *)
Look ==
  /\ pc = "look"
  /\ HostGoes(IF files.setup THEN "mark" ELSE "poll")
  /\ UNCHANGED <<row, known, net, boxVars, netVars, cancel, cut>>

Poll ==
  /\ pc = "poll"
  /\ \/ /\ box = "exited"
        /\ row' = [row EXCEPT !.category = "setup_failure"]
        /\ HostGoes("except")
     \/ /\ box = "up"
        /\ HostGoes("look")
        /\ UNCHANGED row
     \/ /\ box = "up"              \* 300 s have passed
        /\ row' = [row EXCEPT !.category = "setup_timeout"]
        /\ HostGoes("except")
     \/ /\ DockerFails
        /\ HostGoes("except")
        /\ UNCHANGED row
  /\ UNCHANGED <<known, net, boxVars, netVars, cancel, cut>>

Mark ==
  /\ pc = "mark"
  /\ row' = [row EXCEPT !.status = "running"]
  /\ HostGoes(IF net = "isolated" THEN "rules" ELSE "signal")
  /\ UNCHANGED <<known, net, boxVars, netVars, cancel, cut>>

-----------------------------------------------------------------------------
(* _switch_to_agent_network: resolve, one script with all rules, then the  *)
(* two networks.  A domain that does not resolve raises, as does exec in a *)
(* container that has exited.                                              *)
ApplyRules ==
  /\ pc = "rules"
  /\ \/ /\ box = "up"
        /\ \E S \in (SUBSET Addr) \ {{}} : rules' = S /\ ips' = S
        /\ guard' = "closed"
        /\ HostGoes("leave")
     \/ /\ HostGoes("except")
        /\ UNCHANGED <<rules, ips, guard>>
  /\ UNCHANGED <<row, known, net, boxVars, nets, loop, fresh, cancel, cut>>

LeaveSetupNet ==
  /\ pc = "leave"
  /\ \/ nets' = nets \ {"setup"} /\ HostGoes("join")
     \/ DockerFails /\ HostGoes("except") /\ UNCHANGED nets
  /\ UNCHANGED <<row, known, net, boxVars, rules, guard, loop, ips, fresh, cancel, cut>>

JoinAgentNet ==
  /\ pc = "join"
  /\ \/ nets' = nets \union {"agent"} /\ HostGoes("signal")
     \/ DockerFails /\ HostGoes("except") /\ UNCHANGED nets
  /\ UNCHANGED <<row, known, net, boxVars, rules, guard, loop, ips, fresh, cancel, cut>>

(* The marker the entrypoint waits for; outside development the server     *)
(* refuses to run without isolation.  The settings decide on a refresh.    *)
Signal ==
  /\ pc = "signal"
  /\ IF net = "refused"
       THEN HostGoes("except") /\ UNCHANGED <<files, loop>>
       ELSE /\ files' = [files EXCEPT !.switched = TRUE]
            /\ loop' \in IF net = "isolated" THEN {"off", "sleep"} ELSE {"off"}
            /\ HostGoes("wait")
  /\ UNCHANGED <<row, known, net, lives, step, ips, fresh, cancel, cut>>

(* The loop is cancelled and its known_ips are gone, but an exec under way *)
(* runs on in its thread.                                                  *)
StopLoop == loop' = (IF loop = "sleep" THEN "off" ELSE loop) /\ ips' = {}

WaitForever ==   \* fault: container.wait without a timeout
  /\ pc = "wait"
  /\ box = "exited"
  /\ StopLoop
  /\ HostGoes("collect")
  /\ UNCHANGED <<row, known, net, boxVars, chain, fresh, cancel, cut>>

Wait ==
  /\ pc = "wait"
  /\ StopLoop
  /\ \/ box = "exited" /\ HostGoes("collect")
     \/ box = "up" /\ HostGoes("except")
     \/ DockerFails /\ HostGoes("except")
  /\ UNCHANGED <<row, known, net, boxVars, chain, fresh, cancel, cut>>

-----------------------------------------------------------------------------
(* What result.json says, and whether the cost in it exceeds the budget.   *)
(* has_diff tests the size of diff.patch: a file cut short may be empty.   *)
HasDiff == files.diff \in {"full", "torn"}
MayLackDiff == files.diff # "full"

CollectedTrustingReason ==   \* fault: max_turns is partial without a diff, too
  {s \in {"completed", "partial", "failed"} :
     CASE files.result = "success" -> s = "completed"
       [] files.result = "max_turns" -> s = "partial"
       [] OTHER -> s = "failed"}

Collected ==
  {s \in {"completed", "partial", "failed"} :
     CASE files.result = "success" -> s = "completed"
       [] files.result = "max_turns" -> \/ s = "partial" /\ HasDiff
                                        \/ s = "failed" /\ MayLackDiff
       [] OTHER -> s = "failed"}

(* A result is written whatever the row holds; its absence only over an    *)
(* unsettled row; a file that does not parse raises.                       *)
Collect ==
  /\ pc = "collect"
  /\ \/ /\ files.result \in Reason \union {"error"}
        /\ \/ \E s \in Collected :
                row' = [row EXCEPT !.status = s, !.review = (s = "partial")]
           \/ /\ files.result \in Reason
              /\ row' = [row EXCEPT !.status = "failed", !.category = "cost_exceeded",
                                    !.review = FALSE]
        /\ HostGoes("stop")
     \/ /\ files.result = "none"
        /\ IF code = "killed" THEN SetRowIf({"setup", "running"}, "timed_out", "timeout")
                              ELSE SetRowIf({"setup", "running"}, "failed", "container_error")
        /\ HostGoes("stop")
     \/ /\ files.result = "torn"
        /\ HostGoes("except")
        /\ UNCHANGED row
  /\ UNCHANGED <<known, net, boxVars, netVars, cancel, cut>>

ExceptUnchecked ==   \* fault: the except clause only expects a running row
  /\ pc = "except"
  /\ SetRowIf({"running"}, "failed", "agent_error")
  /\ HostGoes("stop")
  /\ UNCHANGED <<known, net, boxVars, netVars, cancel, cut>>

Except ==
  /\ pc = "except"
  /\ SetRowIf(Unsettled, "failed", "agent_error")
  /\ HostGoes("stop")
  /\ UNCHANGED <<known, net, boxVars, netVars, cancel, cut>>

-----------------------------------------------------------------------------
(* The entrypoint.  Its container lasts as long as it does, and networks   *)
(* and rules as long as the container.                                     *)
Nothing == [reason |-> "failed", diff |-> "empty"]

Over(c) ==
  /\ box' = "exited" /\ code' = c /\ step' = "over"
  /\ made' = Nothing
  /\ nets' = {} /\ rules' = {} /\ guard' = "open"

(* _write_error swallows its own failure, after open() cut the file.       *)
WriteError ==
  /\ \E v \in IF "disk" \in Events THEN {"error", "torn"} ELSE {"error"} :
       files' = [files EXCEPT !.result = v]
  /\ Over("error")

(* The `finally` of the host: stop (a signal, then a kill) and remove.     *)
StopBox ==
  /\ pc = "stop"
  /\ IF box = "none" THEN HostGoes("ended") ELSE HostGoes("remove")
  /\ \/ /\ box = "up"
        /\ Over("killed")
     \/ /\ box # "up" \/ DockerFails
        /\ UNCHANGED <<lives, step>>
  /\ UNCHANGED <<row, known, net, files, loopVars, cancel, cut>>

RemoveBox ==
  /\ pc = "remove"
  /\ \/ box' = "removed" /\ step' = "over" /\ code' = "none" /\ made' = Nothing
        /\ nets' = {} /\ rules' = {} /\ guard' = "open"
     \/ DockerFails /\ UNCHANGED <<lives, step>>
  /\ HostGoes("ended")
  /\ UNCHANGED <<row, known, net, files, loopVars, cancel, cut>>

(* Clone or copy: the marker, an error with or without result.json.        *)
Setup ==
  /\ step = "setup"
  /\ \/ /\ files' = [files EXCEPT !.setup = TRUE]
        /\ step' = "waiting"
        /\ UNCHANGED lives
     \/ WriteError
     \/ Over("error") /\ UNCHANGED files
  /\ UNCHANGED <<hostVars, loopVars, cancel, cut>>

(* The loop of 30 s on .network-switched.                                  *)
AwaitNothing ==   \* fault: the agent phase without the network switch
  /\ step = "waiting"
  /\ step' = "drop"
  /\ UNCHANGED <<lives, files, hostVars, loopVars, cancel, cut>>

AwaitSwitch ==
  /\ step = "waiting"
  /\ \/ files.switched /\ step' = "drop" /\ UNCHANGED <<lives, files>>
     \/ WriteError
  /\ UNCHANGED <<hostVars, loopVars, cancel, cut>>

DropPrivileges ==
  /\ step = "drop"
  /\ \/ step' = "agent" /\ UNCHANGED <<lives, files>>
     \/ WriteError
     \/ Over("error") /\ UNCHANGED files
  /\ UNCHANGED <<hostVars, loopVars, cancel, cut>>

(* execute_task catches what the SDK or the command line raises: that is a *)
(* failure with an empty diff.  Other ends come with a captured diff.      *)
AgentEndsWithoutDiff ==   \* fault: no diff at all instead of an empty one
  /\ step = "agent"
  /\ made' \in [reason : Reason, diff : {"full", "none"}]
  /\ step' = "result"
  /\ UNCHANGED <<box, code, files, hostVars, netVars, cancel, cut>>

AgentEnds ==
  /\ step = "agent"
  /\ made' \in [reason : Reason, diff : {"full", "empty"}]
  /\ step' = "result"
  /\ UNCHANGED <<box, code, files, hostVars, netVars, cancel, cut>>

(* Four files, each opened (and so cut) and then written; _write_artifact  *)
(* caps the artifacts, so that one may be cut for good.  If one cannot be  *)
(* written, result.json becomes an error.                                  *)
AfterFile == [result |-> "diff", diff |-> "audit", audit |-> "transcript", transcript |-> "exit"]

Content(f) == CASE f = "result" -> {made.reason}
                [] f = "diff" -> {made.diff}
                [] OTHER -> {"full", "capped"}

OpenFile ==
  /\ step \in Writing
  /\ files[step] = "none"
  /\ files' = [files EXCEPT ![step] = "torn"]
  /\ UNCHANGED <<box, code, step, made, hostVars, netVars, cancel, cut>>

WriteFile ==
  /\ step \in Writing
  /\ files[step] = "torn"
  /\ \/ /\ \E v \in Content(step) : files' = [files EXCEPT ![step] = v]
        /\ step' = AfterFile[step]
        /\ UNCHANGED lives
     \/ "disk" \in Events /\ WriteError
  /\ UNCHANGED <<hostVars, loopVars, cancel, cut>>

Exit ==
  /\ step = "exit"
  /\ Over(IF made.reason = "success" THEN "ok" ELSE "error")
  /\ UNCHANGED <<files, hostVars, loopVars, cancel, cut>>

(* Out of memory, or killed by an operator.                                *)
Kill ==
  /\ "kill" \in Events
  /\ box = "up"
  /\ Over("killed")
  /\ cut' = TRUE
  /\ UNCHANGED <<files, hostVars, loopVars, cancel>>

-----------------------------------------------------------------------------
(* _refresh_egress_loop: resolve again; new addresses go in between taking *)
(* the DROP off the end of the chain and putting it back.  A domain that   *)
(* does not resolve is left out of the round; a failed exec ends the loop. *)
Resolve ==
  /\ loop = "sleep"
  /\ \E S \in (SUBSET (Addr \ ips)) \ {{}} : fresh' = S
  /\ loop' = "exec"
  /\ UNCHANGED <<nets, rules, guard, ips, hostVars, boxVars, cancel, cut>>

OpenChain ==
  /\ loop = "exec"
  /\ \/ box = "up" /\ guard' = "open" /\ loop' = "append"
        /\ UNCHANGED fresh
     \/ (box # "up" \/ DockerFails) /\ loop' = "broken" /\ fresh' = {} /\ UNCHANGED guard
  /\ UNCHANGED <<nets, rules, ips, hostVars, boxVars, cancel, cut>>

(* known_ips grows only after the script succeeded, and only in the loop:  *)
(* a script that outlives it changes the chain and nothing else.           *)
RememberFirst ==   \* fault: known_ips grows even if the script fails
  /\ loop = "append"
  /\ ips' = IF pc = "wait" THEN ips \union fresh ELSE ips
  /\ \/ /\ box = "up"
        /\ rules' = rules \union fresh
        /\ guard' = "closed"
        /\ loop' = IF pc = "wait" THEN "sleep" ELSE "off"
     \/ /\ box # "up" \/ DockerFails
        /\ loop' = "broken"
        /\ UNCHANGED <<rules, guard>>
  /\ fresh' = {}
  /\ UNCHANGED <<nets, hostVars, boxVars, cancel, cut>>

CloseChain ==
  /\ loop = "append"
  /\ \/ /\ box = "up"
        /\ rules' = rules \union fresh
        /\ guard' = "closed"
        /\ ips' = IF pc = "wait" THEN ips \union fresh ELSE ips
        /\ loop' = IF pc = "wait" THEN "sleep" ELSE "off"
     \/ /\ box # "up" \/ DockerFails
        /\ rules' \in IF box = "up" THEN {rules \union S : S \in SUBSET fresh} ELSE {rules}
        /\ loop' = "broken"
        /\ UNCHANGED <<guard, ips>>
  /\ fresh' = {}
  /\ UNCHANGED <<nets, hostVars, boxVars, cancel, cut>>

-----------------------------------------------------------------------------
(* POST /tasks/{id}/cancel and cancel_container: a snapshot of the row,    *)
(* a kill if the snapshot has a container, a conditional write, and the    *)
(* category if a reason was given.                                         *)
CancelRead ==
  /\ "cancel" \in Events
  /\ cancel = "none"
  /\ row.status \in Unsettled
  /\ cancel' = CASE row.status = "queued" -> "queued"
                 [] known -> "kill"
                 [] OTHER -> "write"
  /\ UNCHANGED <<hostVars, boxVars, netVars, cut>>

CancelKill ==
  /\ cancel = "kill"
  /\ cancel' = "write"
  /\ IF box = "up"
       THEN \/ Over("killed") /\ cut' = TRUE
            \/ DockerFails /\ UNCHANGED <<lives, step, cut>>
       ELSE UNCHANGED <<lives, step, cut>>
  /\ UNCHANGED <<files, hostVars, loopVars>>

CancelWriteAnyway ==   \* fault: writes over an outcome
  /\ cancel \in {"queued", "write"}
  /\ SetRow("cancelled", row.category)
  /\ cancel' = "reason"
  /\ UNCHANGED <<pc, known, net, boxVars, netVars, cut>>

CancelWrite ==
  /\ cancel \in {"queued", "write"}
  /\ LET expected == IF cancel = "queued" THEN {"queued"} ELSE Unsettled
     IN /\ SetRowIf(expected, "cancelled", row.category)
        /\ cancel' = IF row.status \in expected THEN "reason" ELSE "done"
  /\ UNCHANGED <<pc, known, net, boxVars, netVars, cut>>

CancelReason ==
  /\ cancel = "reason"
  /\ row' \in {row, [row EXCEPT !.category = "cancelled"]}
  /\ cancel' = "done"
  /\ UNCHANGED <<pc, known, net, boxVars, netVars, cut>>

-----------------------------------------------------------------------------
NoFiles == [setup |-> FALSE, switched |-> FALSE, result |-> "none",
            diff |-> "none", audit |-> "none", transcript |-> "none"]

SandboxInit ==
  /\ pc = "start"
  /\ row = [status |-> "queued", category |-> "none", review |-> FALSE]
  /\ known = FALSE
  /\ net \in {"isolated", "skipped", "refused"}
  /\ box = "none" /\ code = "none" /\ step = "over"
  /\ made = Nothing
  /\ files = NoFiles
  /\ nets = {} /\ rules = {} /\ guard = "open"
  /\ loop = "off" /\ ips = {} /\ fresh = {}
  /\ cancel = "none"
  /\ cut = FALSE

Host ==
  \/ Start \/ Create \/ Record \/ Look \/ Poll \/ Mark
  \/ ApplyRules \/ LeaveSetupNet \/ JoinAgentNet \/ Signal \/ Wait
  \/ Collect \/ Except \/ StopBox \/ RemoveBox

Container ==
  \/ Setup \/ AwaitSwitch \/ DropPrivileges \/ AgentEnds
  \/ OpenFile \/ WriteFile \/ Exit

Refresh == Resolve \/ OpenChain \/ CloseChain

CancelRequest == CancelRead \/ CancelKill \/ CancelWrite \/ CancelReason

SandboxNext == Host \/ Container \/ Kill \/ Refresh \/ CancelRequest

SandboxSpec == SandboxInit /\ [][SandboxNext]_svars

(* Only the event loop is fair: the agent may never end, its container     *)
(* never reach a marker.  The deadlines of Poll and Wait are their second  *)
(* outcome, and an attempt to poll repeats only until one of them is taken.*)
SandboxFairness == WF_svars(Host) /\ SF_svars(Poll /\ pc' = "except")

-----------------------------------------------------------------------------
SandboxTypeOK ==
  /\ pc \in {"start", "create", "record", "look", "poll", "mark", "rules", "leave", "join",
             "signal", "wait", "collect", "except", "stop", "remove", "ended"}
  /\ row \in [status : Unsettled \union {"completed", "partial", "failed", "timed_out", "cancelled"},
              category : {"none", "setup_failure", "setup_timeout", "agent_error", "timeout",
                          "container_error", "cost_exceeded", "cancelled"},
              review : BOOLEAN]
  /\ known \in BOOLEAN
  /\ net \in {"isolated", "skipped", "refused"}
  /\ box \in {"none", "up", "exited", "removed"}
  /\ code \in {"none", "ok", "error", "killed"}
  /\ step \in {"setup", "waiting", "exit", "over"} \union Working \union Writing
  /\ made \in [reason : Reason, diff : {"full", "empty"}]
  /\ files \in [setup : BOOLEAN, switched : BOOLEAN,
                result : {"none", "torn", "error"} \union Reason,
                diff : {"none", "torn", "empty", "full"},
                audit : {"none", "torn", "capped", "full"},
                transcript : {"none", "torn", "capped", "full"}]
  /\ nets \subseteq {"setup", "agent"}
  /\ rules \subseteq Addr /\ ips \subseteq Addr /\ fresh \subseteq Addr
  /\ guard \in {"open", "closed"}
  /\ loop \in {"off", "sleep", "exec", "append", "broken"}
  /\ cancel \in {"none", "queued", "kill", "write", "reason", "done"}
  /\ cut \in BOOLEAN

(* "iptables rules are applied BEFORE the network switch" (container.py    *)
(* :686): when the agent works, its container has left setup-net, is on    *)
(* agent-net, and the chain ends in its DROP, unless the refresh loop has  *)
(* it open, or failed while it had.                                        *)
AgentBehindRules ==
  step \in Working \union Writing /\ net = "isolated" =>
    nets = {"agent"} /\ (guard = "closed" \/ loop \in {"append", "broken"})

(* What the refresh loop takes for open is open: an address it will not    *)
(* resolve to a rule again has one.                                        *)
KnownAreAllowed == box = "up" => ips \subseteq rules

(* A completed run that was not cut short left all its artifacts, a        *)
(* partial one a diff, and only a partial one waits for a review.          *)
OutcomeMatchesFiles ==
  /\ row.status = "completed" /\ ~cut => /\ files.result = "success"
                                         /\ \A f \in Artifact : files[f] \notin {"none", "torn"}
  /\ row.status = "partial" => HasDiff
  /\ row.review => row.status = "partial"

(* Whatever raised on the way, a run that is over has settled its row.     *)
EndedRunIsSettled == pc = "ended" => row.status \notin Unsettled

(* The coroutine ends, whatever the container does: the pool waits for it  *)
(* to give its slot to another task.                                       *)
RunEnds == <>(pc = "ended")
=============================================================================
