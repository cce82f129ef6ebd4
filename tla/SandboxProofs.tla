--------------------------- MODULE SandboxProofs ----------------------------
(***************************************************************************)
(* What SandboxRun guarantees for any set of addresses and whatever of the *)
(* Events may happen, checked by TLAPS.                                    *)
(***************************************************************************)
EXTENDS SandboxRun, TLAPS

(* The row and the output directory keep their shape.                      *)
Rows == [status : Unsettled \union {"completed", "partial", "failed", "timed_out", "cancelled"},
         category : {"none", "setup_failure", "setup_timeout", "agent_error", "timeout",
                     "container_error", "cost_exceeded", "cancelled"},
         review : BOOLEAN]

Directories ==
  [setup : BOOLEAN, switched : BOOLEAN,
   result : {"none", "torn", "error"} \union Reason,
   diff : {"none", "torn", "empty", "full"},
   audit : {"none", "torn", "capped", "full"},
   transcript : {"none", "torn", "capped", "full"}]

Made == [reason : Reason, diff : {"full", "empty"}]

Shape == row \in Rows /\ files \in Directories /\ made \in Made

LEMMA RowStep ==
  ASSUME row \in Rows, [SandboxNext]_svars
  PROVE  row' \in Rows
<1> USE DEF Rows, Unsettled, SetRow, SetRowIf
<1>1. ASSUME Start \/ Mark
      PROVE  row' \in Rows
  BY <1>1 DEF Start, Mark
<1>2. ASSUME Poll
      PROVE  row' \in Rows
  BY <1>2 DEF Poll
<1>3. ASSUME Collect
      PROVE  row' \in Rows
  <2>1. CASE row' = row
    BY <2>1
  <2>2. ASSUME NEW s \in {"completed", "partial", "failed"},
               row' = [row EXCEPT !.status = s, !.review = (s = "partial")]
        PROVE  row' \in Rows
    BY <2>2
  <2>3. CASE row' = [row EXCEPT !.status = "failed", !.category = "cost_exceeded",
                                !.review = FALSE]
    BY <2>3
  <2>4. CASE files.result = "none"
    BY <1>3, <2>4 DEF Collect, Reason
  <2>5. Collected \subseteq {"completed", "partial", "failed"}
    BY DEF Collected
  <2>6. QED
    BY <1>3, <2>1, <2>2, <2>3, <2>4, <2>5 DEF Collect
<1>4. ASSUME Except \/ CancelWrite \/ CancelReason
      PROVE  row' \in Rows
  BY <1>4 DEF Except, CancelWrite, CancelReason
<1>5. ASSUME ~(Start \/ Mark \/ Poll \/ Collect \/ Except \/ CancelWrite \/ CancelReason)
      PROVE  row' = row
  BY <1>5 DEF SandboxNext, Host, Create, Record, Look, ApplyRules, LeaveSetupNet, JoinAgentNet,
       Signal, Wait, StopBox, RemoveBox, Container, Setup, AwaitSwitch, DropPrivileges, AgentEnds,
       OpenFile, WriteFile, Exit, Kill, Refresh, Resolve, OpenChain, CloseChain, CancelRequest,
       CancelRead, CancelKill, svars, hostVars
<1>6. QED
  BY <1>1, <1>2, <1>3, <1>4, <1>5

LEMMA FilesStep ==
  ASSUME files \in Directories, made \in Made, [SandboxNext]_svars
  PROVE  files' \in Directories /\ made' \in Made /\ (files'.switched = files.switched \/ Signal)
<1> USE DEF Directories, Made, Reason, boxVars, lives, Over, Nothing, WriteError
<1>1. ASSUME Signal
      PROVE  files' \in Directories /\ made' \in Made /\ (files'.switched = files.switched \/ Signal)
  BY <1>1 DEF Signal
<1>2. ASSUME Setup
      PROVE  files' \in Directories /\ made' \in Made /\ (files'.switched = files.switched \/ Signal)
  <2>1. CASE WriteError
    BY <2>1
  <2>2. CASE files' = [files EXCEPT !.setup = TRUE] /\ UNCHANGED lives
    BY <2>2
  <2>3. CASE files' = files /\ Over("error")
    BY <2>3
  <2>4. QED
    BY <1>2, <2>1, <2>2, <2>3 DEF Setup
<1>3. ASSUME AwaitSwitch \/ DropPrivileges \/ AgentEnds
      PROVE  files' \in Directories /\ made' \in Made /\ (files'.switched = files.switched \/ Signal)
  BY <1>3 DEF AwaitSwitch, DropPrivileges, AgentEnds
<1>4. ASSUME OpenFile
      PROVE  files' \in Directories /\ made' \in Made /\ (files'.switched = files.switched \/ Signal)
  BY <1>4 DEF OpenFile, Writing, Artifact
<1>5. ASSUME WriteFile
      PROVE  files' \in Directories /\ made' \in Made /\ (files'.switched = files.switched \/ Signal)
  <2>1. CASE WriteError
    BY <2>1
  <2>2. ASSUME NEW v \in Content(step), step \in Writing, files' = [files EXCEPT ![step] = v],
               UNCHANGED lives
        PROVE  files' \in Directories /\ made' \in Made /\ (files'.switched = files.switched \/ Signal)
    BY <2>2 DEF Content, Writing, Artifact
  <2>3. QED
    BY <1>5, <2>1, <2>2 DEF WriteFile
<1>6. ASSUME StopBox \/ RemoveBox \/ Exit \/ Kill \/ CancelKill
      PROVE  files' = files /\ made' \in Made
  BY <1>6 DEF StopBox, RemoveBox, Exit, Kill, CancelKill
<1>7. ASSUME Host \/ Refresh \/ CancelRequest \/ UNCHANGED svars,
             ~(Signal \/ StopBox \/ RemoveBox \/ CancelKill)
      PROVE  files' = files /\ made' = made
  BY <1>7 DEF Host, Start, Create, Record, Look, Poll, Mark, ApplyRules, LeaveSetupNet,
       JoinAgentNet, Wait, Collect, Except, Refresh, Resolve, OpenChain, CloseChain,
       CancelRequest, CancelRead, CancelWrite, CancelReason, svars
<1>8. QED
  BY <1>1, <1>2, <1>3, <1>4, <1>5, <1>6, <1>7 DEF SandboxNext, Host, Container, Refresh,
     CancelRequest

LEMMA ShapeStep ==
  ASSUME Shape, [SandboxNext]_svars
  PROVE  Shape'
BY RowStep, FilesStep DEF Shape

(* The other variables, each in its set.                                   *)
HostValues ==
  /\ pc \in {"start", "create", "record", "look", "poll", "mark", "rules", "leave", "join",
             "signal", "wait", "collect", "except", "stop", "remove", "ended"}
  /\ known \in BOOLEAN
  /\ net \in {"isolated", "skipped", "refused"}
  /\ cancel \in {"none", "queued", "kill", "write", "reason", "done"}

BoxValues ==
  /\ box \in {"none", "up", "exited", "removed"}
  /\ code \in {"none", "ok", "error", "killed"}
  /\ step \in {"setup", "waiting", "exit", "over"} \union Working \union Writing
  /\ cut \in BOOLEAN

NetValues ==
  /\ nets \subseteq {"setup", "agent"}
  /\ rules \subseteq Addr /\ ips \subseteq Addr /\ fresh \subseteq Addr
  /\ guard \in {"open", "closed"}
  /\ loop \in {"off", "sleep", "exec", "append", "broken"}

LEMMA HostValuesStep ==
  ASSUME HostValues, [SandboxNext]_svars
  PROVE  HostValues'
<1> USE DEF HostValues, HostGoes
<1>1. CASE Host
  BY <1>1 DEF Host, Start, Create, Record, Look, Poll, Mark, ApplyRules, LeaveSetupNet, JoinAgentNet,
       Signal, Wait, Collect, Except, StopBox, RemoveBox
<1>2. CASE Container \/ Kill
  BY <1>2 DEF Container, Setup, AwaitSwitch, DropPrivileges, AgentEnds, OpenFile, WriteFile, Exit,
       Kill, hostVars
<1>3. CASE CancelRequest
  BY <1>3 DEF CancelRequest, CancelRead, CancelKill, CancelWrite, CancelReason, hostVars
<1>4. CASE Refresh \/ UNCHANGED svars
  BY <1>4 DEF Refresh, Resolve, OpenChain, CloseChain, svars, hostVars
<1>5. QED
  BY <1>1, <1>2, <1>3, <1>4 DEF SandboxNext

LEMMA BoxValuesStep ==
  ASSUME BoxValues, [SandboxNext]_svars
  PROVE  BoxValues'
<1> USE DEF BoxValues, Working, Writing, Artifact, boxVars, lives, Over, WriteError
<1>1. CASE Create \/ StopBox \/ RemoveBox
  BY <1>1 DEF Create, StopBox, RemoveBox
<1>2. ASSUME Host, ~(Create \/ StopBox \/ RemoveBox)
      PROVE  BoxValues'
  BY <1>2 DEF Host, Start, Record, Look, Poll, Mark, ApplyRules, LeaveSetupNet, JoinAgentNet, Signal,
       Wait, Collect, Except
<1>3. CASE Setup \/ AwaitSwitch \/ DropPrivileges \/ AgentEnds \/ OpenFile \/ Exit
  BY <1>3 DEF Setup, AwaitSwitch, DropPrivileges, AgentEnds, OpenFile, Exit
<1>4. CASE WriteFile
  BY <1>4 DEF WriteFile, AfterFile
<1>5. CASE Kill \/ CancelRequest
  BY <1>5 DEF Kill, CancelRequest, CancelRead, CancelKill, CancelWrite, CancelReason
<1>6. CASE Refresh \/ UNCHANGED svars
  BY <1>6 DEF Refresh, Resolve, OpenChain, CloseChain, svars
<1>7. QED
  BY <1>1, <1>2, <1>3, <1>4, <1>5, <1>6 DEF SandboxNext, Host, Container

LEMMA NetValuesStep ==
  ASSUME NetValues, [SandboxNext]_svars
  PROVE  NetValues'
<1> USE DEF NetValues, netVars, chain, loopVars, lives, Over, StopLoop
<1>1. CASE Create \/ StopBox \/ RemoveBox \/ Signal \/ Wait
  BY <1>1 DEF Create, StopBox, RemoveBox, Signal, Wait
<1>2. CASE ApplyRules \/ LeaveSetupNet \/ JoinAgentNet
  BY <1>2 DEF ApplyRules, LeaveSetupNet, JoinAgentNet
<1>3. ASSUME Start \/ Record \/ Look \/ Poll \/ Mark \/ Collect \/ Except
      PROVE  NetValues'
  BY <1>3 DEF Start, Record, Look, Poll, Mark, Collect, Except
<1>4. CASE Container
  BY <1>4 DEF Container, Setup, AwaitSwitch, DropPrivileges, AgentEnds, OpenFile, WriteFile, Exit,
       WriteError
<1>5. CASE Kill \/ CancelRequest
  BY <1>5 DEF Kill, CancelRequest, CancelRead, CancelKill, CancelWrite, CancelReason
<1>6. CASE Resolve \/ OpenChain \/ UNCHANGED svars
  BY <1>6 DEF Resolve, OpenChain, svars
<1>7. CASE CloseChain
  BY <1>7 DEF CloseChain
<1>8. QED
  BY <1>1, <1>2, <1>3, <1>4, <1>5, <1>6, <1>7 DEF SandboxNext, Host, Refresh

-----------------------------------------------------------------------------
(* The host leaves a settled row behind before it cleans up, and only it   *)
(* writes an outcome of its own.                                           *)
Settled ==
  /\ pc \in {"stop", "remove", "ended"} => row.status \notin Unsettled
  /\ pc # "start" => row.status # "queued"
  /\ row.status \in {"completed", "partial", "failed", "timed_out"} =>
       pc \in {"stop", "remove", "ended"}

LEMMA SettledStep ==
  ASSUME Shape, Settled, [SandboxNext]_svars
  PROVE  Settled'
<1> row \in Rows
  BY DEF Shape
<1> USE DEF Settled, Unsettled, Rows, HostGoes, SetRow, SetRowIf
<1>1. CASE Start \/ Mark
  BY <1>1 DEF Start, Mark
<1>2. CASE Create \/ Record \/ Look \/ ApplyRules \/ LeaveSetupNet \/ JoinAgentNet \/ Signal \/ Wait
  BY <1>2 DEF Create, Record, Look, ApplyRules, LeaveSetupNet, JoinAgentNet, Signal, Wait
<1>3. CASE Poll
  BY <1>3 DEF Poll
<1>4. CASE Collect
  <2>1. pc = "collect" /\ (pc' = "stop" \/ (pc' = "except" /\ UNCHANGED row))
    BY <1>4 DEF Collect
  <2>2. row.status \notin {"queued", "completed", "partial", "failed", "timed_out"}
    BY <2>1
  <2>3. ASSUME pc' = "stop", row'.status \notin Unsettled
        PROVE  Settled'
    BY <2>3
  <2>4. CASE pc' = "except"
    BY <2>1, <2>2, <2>4
  <2>5. ASSUME NEW s \in Collected, row' = [row EXCEPT !.status = s, !.review = (s = "partial")]
        PROVE  row'.status \notin Unsettled
    BY <2>5 DEF Collected
  <2>6. ASSUME row' = [row EXCEPT !.status = "failed", !.category = "cost_exceeded",
                                  !.review = FALSE]
        PROVE  row'.status \notin Unsettled
    BY <2>6
  <2>7. ASSUME files.result = "none", pc' = "stop"
        PROVE  row'.status \notin Unsettled
    <3>1. \/ SetRowIf({"setup", "running"}, "timed_out", "timeout")
          \/ SetRowIf({"setup", "running"}, "failed", "container_error")
      BY <1>4, <2>7 DEF Collect, Reason
    <3>2. QED
      BY <2>2, <3>1
  <2>8. QED
    BY <1>4, <2>1, <2>3, <2>4, <2>5, <2>6, <2>7 DEF Collect
<1>5. CASE Except
  BY <1>5 DEF Except
<1>6. CASE StopBox \/ RemoveBox
  BY <1>6 DEF StopBox, RemoveBox
<1>7. CASE CancelWrite \/ CancelReason
  BY <1>7 DEF CancelWrite, CancelReason
<1>8. CASE CancelRead \/ CancelKill \/ Kill \/ Refresh
  BY <1>8 DEF CancelRead, CancelKill, Kill, Refresh, Resolve, OpenChain, CloseChain, hostVars
<1>9. CASE Container \/ UNCHANGED svars
  BY <1>9 DEF Container, Setup, AwaitSwitch, DropPrivileges, AgentEnds, OpenFile, WriteFile, Exit,
              svars, hostVars
<1>10. QED
  BY <1>1, <1>2, <1>3, <1>4, <1>5, <1>6, <1>7, <1>8, <1>9 DEF SandboxNext, Host, CancelRequest

-----------------------------------------------------------------------------
(* known_ips is empty until the rules of a running container are set.      *)
Known == (pc \in {"start", "create"} => ips = {}) /\ KnownAreAllowed

LEMMA KnownStep ==
  ASSUME Known, [SandboxNext]_svars
  PROVE  Known'
<1> USE DEF Known, KnownAreAllowed, HostGoes
<1>1. CASE Start \/ Record \/ Look \/ Poll \/ Mark \/ Collect \/ Except
  BY <1>1 DEF Start, Record, Look, Poll, Mark, Collect, Except, boxVars, netVars, chain, loopVars
<1>2. CASE Create
  BY <1>2 DEF Create
<1>3. CASE ApplyRules \/ LeaveSetupNet \/ JoinAgentNet
  BY <1>3 DEF ApplyRules, LeaveSetupNet, JoinAgentNet, boxVars
<1>4. CASE Signal \/ Wait
  BY <1>4 DEF Signal, Wait, StopLoop, boxVars, lives, chain
<1>5. CASE StopBox \/ RemoveBox
  BY <1>5 DEF StopBox, RemoveBox, Over, lives, chain, loopVars
<1>6. CASE Setup \/ AwaitSwitch \/ DropPrivileges
  BY <1>6 DEF Setup, AwaitSwitch, DropPrivileges, WriteError, Over, lives, chain, hostVars, loopVars
<1>7. CASE AgentEnds \/ OpenFile \/ WriteFile \/ Exit
  BY <1>7 DEF AgentEnds, OpenFile, WriteFile, Exit, WriteError, Over, lives, chain, hostVars,
              netVars, loopVars
<1>8. CASE Kill \/ CancelKill
  BY <1>8 DEF Kill, CancelKill, Over, lives, chain, hostVars, loopVars
<1>9. CASE Resolve \/ OpenChain
  BY <1>9 DEF Resolve, OpenChain, hostVars, boxVars
<1>10. CASE CloseChain
  BY <1>10 DEF CloseChain, hostVars, boxVars
<1>11. CASE CancelRead \/ CancelWrite \/ CancelReason \/ UNCHANGED svars
  BY <1>11 DEF CancelRead, CancelWrite, CancelReason, svars, hostVars, boxVars, netVars, chain,
               loopVars
<1>12. QED
  BY <1>1, <1>2, <1>3, <1>4, <1>5, <1>6, <1>7, <1>8, <1>9, <1>10, <1>11 DEF SandboxNext, Host,
     Container, Refresh, CancelRequest

-----------------------------------------------------------------------------
(* The handshake: which networks the container is on and whether its chain *)
(* is closed, by the await the host is at.                                 *)
BeforeWait == {"start", "create", "record", "look", "poll", "mark", "rules", "leave", "join",
               "signal"}

Behind == nets = {"agent"} /\ (guard = "closed" \/ loop \in {"append", "broken"})

Staged ==
  /\ pc \in {"record", "look", "poll", "mark", "rules", "leave"} => nets = {"setup"}
  /\ pc \in {"leave", "join", "signal"} => guard = "closed"
  /\ pc = "join" => nets = {}
  /\ pc = "signal" => nets = {"agent"}
  /\ files.switched => Behind

Switching ==
  /\ step \in Working \union Writing \union {"exit"} => files.switched
  /\ files.switched => pc \notin BeforeWait
  /\ pc \in BeforeWait => loop = "off"
  /\ net = "isolated" /\ step # "over" => Staged

LEMMA SwitchingStep ==
  ASSUME Shape, Switching, [SandboxNext]_svars
  PROVE  Switching'
<1>1. files'.switched = files.switched \/ Signal
  BY FilesStep DEF Shape
<1> USE DEF Switching, Staged, Behind, BeforeWait, Working, Writing, Artifact, HostGoes
<1>2. CASE Start \/ Record \/ Look \/ Poll \/ Mark
  BY <1>2 DEF Start, Record, Look, Poll, Mark, boxVars, netVars, chain, loopVars
<1>3. CASE Create
  BY <1>3 DEF Create
<1>4. CASE ApplyRules
  BY <1>4 DEF ApplyRules, boxVars
<1>5. CASE LeaveSetupNet
  BY <1>5 DEF LeaveSetupNet, boxVars
<1>6. CASE JoinAgentNet
  BY <1>6 DEF JoinAgentNet, boxVars
<1>7. CASE Signal
  BY <1>7 DEF Signal, lives, chain
<1>8. CASE Wait
  BY <1>1, <1>8 DEF Wait, StopLoop, boxVars, chain
<1>9. CASE Collect \/ Except
  BY <1>9 DEF Collect, Except, boxVars, netVars, chain, loopVars
<1>10. CASE StopBox \/ RemoveBox
  BY <1>10 DEF StopBox, RemoveBox, Over, lives, chain, loopVars
<1>11. CASE Setup
  <2>1. ~Signal
    BY <1>11 DEF Setup, Signal, hostVars
  <2>2. QED
    BY <1>1, <1>11, <2>1 DEF Setup, WriteError, Over, lives, chain, hostVars, loopVars
<1>12. CASE AwaitSwitch
  BY <1>1, <1>12 DEF AwaitSwitch, WriteError, Over, lives, chain, hostVars, loopVars, Signal
<1>13. CASE DropPrivileges \/ AgentEnds \/ Exit
  BY <1>13 DEF DropPrivileges, AgentEnds, Exit, WriteError, Over, lives, chain, hostVars, netVars,
               loopVars
<1>14. CASE OpenFile
  <2>1. files'.switched = files.switched
    BY <1>1, <1>14 DEF OpenFile, Signal, hostVars
  <2>2. QED
    BY <1>14, <2>1 DEF OpenFile, hostVars, netVars, chain, loopVars
<1>15. CASE WriteFile
  <2>1. files'.switched = files.switched
    BY <1>1, <1>15 DEF WriteFile, Signal, hostVars
  <2>2. CASE WriteError
    BY <1>15, <2>1, <2>2 DEF WriteFile, WriteError, Over, hostVars, loopVars
  <2>3. CASE step' = AfterFile[step] /\ UNCHANGED lives
    <3>1. step \in Writing /\ files.switched
      BY <1>15 DEF WriteFile
    <3>2. step # "over"
      BY <3>1
    <3>3. QED
      BY <1>15, <2>1, <2>3, <3>1, <3>2 DEF WriteFile, lives, chain, hostVars, loopVars
  <2>4. QED
    BY <1>15, <2>2, <2>3 DEF WriteFile
<1>16. CASE Kill \/ CancelKill
  BY <1>16 DEF Kill, CancelKill, Over, lives, chain, hostVars, loopVars
<1>17. CASE Resolve \/ OpenChain
  BY <1>17 DEF Resolve, OpenChain, hostVars, boxVars
<1>18. CASE CloseChain
  BY <1>18 DEF CloseChain, hostVars, boxVars
<1>19. CASE CancelRead \/ CancelWrite \/ CancelReason \/ UNCHANGED svars
  BY <1>19 DEF CancelRead, CancelWrite, CancelReason, svars, hostVars, boxVars, netVars, chain,
               loopVars
<1>20. QED
  BY <1>2, <1>3, <1>4, <1>5, <1>6, <1>7, <1>8, <1>9, <1>10, <1>11, <1>12, <1>13, <1>14, <1>15,
     <1>16, <1>17, <1>18, <1>19 DEF SandboxNext, Host, Container, Refresh, CancelRequest

-----------------------------------------------------------------------------
(* The files: the entrypoint writes them in order, the host reads them     *)
(* when the container has exited, and nobody writes them afterwards.       *)
Whole(f) == files[f] \notin {"none", "torn"}
Complete == Whole("diff") /\ Whole("audit") /\ Whole("transcript")

Written ==
  /\ pc \in {"start", "create"} => step = "over" /\ files.result = "none"
  /\ step # "over" => box = "up"
  /\ files.result \in Reason => step \in Artifact \union {"exit", "over"}
  /\ step \in {"audit", "transcript", "exit"} => Whole("diff")
  /\ step \in {"transcript", "exit"} => Whole("audit")
  /\ step = "exit" => Whole("transcript")
  /\ pc = "collect" => box = "exited"
  /\ step = "over" /\ files.result = "success" /\ pc \notin {"remove", "ended"} => cut \/ Complete

(* A row with a result belongs to a run whose entrypoint is over.          *)
Outcome ==
  /\ row.status \in {"completed", "partial"} => step = "over" /\ pc \in {"stop", "remove", "ended"}
  /\ row.status = "completed" => files.result = "success" /\ (cut \/ Complete)
  /\ row.status = "partial" => HasDiff
  /\ row.review => row.status = "partial"

LEMMA WrittenStep ==
  ASSUME Shape, Written, [SandboxNext]_svars
  PROVE  Written'
<1>1. files \in Directories /\ made \in Made
  BY DEF Shape
<1> USE DEF Written, Whole, Complete, Writing, Artifact, Working, Reason, HostGoes
<1>2. CASE Start \/ Record \/ Look \/ Poll \/ Mark \/ Collect \/ Except
  BY <1>2 DEF Start, Record, Look, Poll, Mark, Collect, Except, boxVars, netVars
<1>3. CASE Create
  BY <1>3 DEF Create
<1>4. CASE ApplyRules \/ LeaveSetupNet \/ JoinAgentNet \/ Wait
  BY <1>4 DEF ApplyRules, LeaveSetupNet, JoinAgentNet, Wait, boxVars
<1>5. CASE Signal
  BY <1>1, <1>5 DEF Signal, lives, Directories
<1>6. CASE StopBox \/ RemoveBox
  BY <1>6 DEF StopBox, RemoveBox, Over, lives
<1>7. CASE WriteError /\ UNCHANGED <<hostVars, cut>> /\ step # "over"
  BY <1>1, <1>7 DEF WriteError, Over, Directories, hostVars
<1>8. CASE Setup
  <2>1. CASE files' = [files EXCEPT !.setup = TRUE] /\ step' = "waiting" /\ UNCHANGED lives
    BY <1>1, <1>8, <2>1 DEF Setup, Directories, lives, hostVars
  <2>2. CASE Over("error") /\ UNCHANGED files
    BY <1>8, <2>2 DEF Setup, Over, hostVars
  <2>3. QED
    BY <1>7, <1>8, <2>1, <2>2 DEF Setup
<1>9. CASE AwaitSwitch \/ DropPrivileges
  <2>1. CASE UNCHANGED <<lives, files>> /\ step' \in {"drop", "agent"}
    BY <1>9, <2>1 DEF AwaitSwitch, DropPrivileges, lives, hostVars
  <2>2. CASE Over("error") /\ UNCHANGED files
    BY <1>9, <2>2 DEF AwaitSwitch, DropPrivileges, Over, hostVars
  <2>3. QED
    BY <1>7, <1>9, <2>1, <2>2 DEF AwaitSwitch, DropPrivileges
<1>10. CASE AgentEnds
  BY <1>10 DEF AgentEnds, hostVars
<1>11. CASE OpenFile
  BY <1>1, <1>11 DEF OpenFile, hostVars, Directories
<1>12. ASSUME WriteFile, ~WriteError
       PROVE  Written'
  <2>1. PICK v \in Content(step) : files' = [files EXCEPT ![step] = v]
    BY <1>12 DEF WriteFile
  <2>2. step \in Writing /\ step' = AfterFile[step] /\ UNCHANGED lives /\ UNCHANGED <<pc, cut>>
    BY <1>12 DEF WriteFile, hostVars
  <2>3. CASE step = "result"
    BY <1>1, <2>1, <2>2, <2>3 DEF AfterFile, Content, lives, Directories, Made
  <2>4. CASE step = "diff"
    BY <1>1, <2>1, <2>2, <2>4 DEF AfterFile, Content, lives, Directories, Made
  <2>5. CASE step = "audit"
    BY <1>1, <2>1, <2>2, <2>5 DEF AfterFile, Content, lives, Directories
  <2>6. CASE step = "transcript"
    BY <1>1, <2>1, <2>2, <2>6 DEF AfterFile, Content, lives, Directories
  <2>7. QED
    BY <2>2, <2>3, <2>4, <2>5, <2>6
<1>13. CASE WriteFile
  <2>1. step # "over" /\ UNCHANGED <<hostVars, cut>>
    BY <1>13 DEF WriteFile
  <2>2. QED
    BY <1>7, <1>12, <1>13, <2>1
<1>14. CASE Exit
  BY <1>14 DEF Exit, Over, hostVars
<1>15. CASE Kill \/ CancelKill
  BY <1>15 DEF Kill, CancelKill, Over, lives, hostVars
<1>16. CASE Refresh \/ CancelRead \/ CancelWrite \/ CancelReason \/ UNCHANGED svars
  BY <1>16 DEF Refresh, Resolve, OpenChain, CloseChain, CancelRead, CancelWrite, CancelReason, svars,
               hostVars, boxVars
<1>17. QED
  BY <1>2, <1>3, <1>4, <1>5, <1>6, <1>8, <1>9, <1>10, <1>11, <1>13, <1>14, <1>15, <1>16
     DEF SandboxNext, Host, Container, CancelRequest

(* No step of the entrypoint, and none of Docker's, follows its end.       *)
LEMMA FilesAreFinal ==
  ASSUME Written, [SandboxNext]_svars, step = "over", pc \in {"stop", "remove", "ended"}
  PROVE  /\ UNCHANGED files /\ step' = "over" /\ pc' \in {"stop", "remove", "ended"}
         /\ cut => cut'
<1> USE DEF Writing, Artifact, HostGoes, hostVars, boxVars, lives, Over
<1>1. CASE Host
  <2>1. CASE StopBox \/ RemoveBox
    BY <2>1 DEF StopBox, RemoveBox
  <2>2. QED
    BY <1>1, <2>1 DEF Host, Start, Create, Record, Look, Poll, Mark, ApplyRules, LeaveSetupNet,
         JoinAgentNet, Signal, Wait, Collect, Except
<1>2. CASE Container
  BY <1>2 DEF Container, Setup, AwaitSwitch, DropPrivileges, AgentEnds, OpenFile, WriteFile, Exit
<1>3. CASE Kill \/ CancelRequest
  BY <1>3 DEF Kill, CancelRequest, CancelRead, CancelKill, CancelWrite, CancelReason
<1>4. CASE Refresh \/ UNCHANGED svars
  BY <1>4 DEF Refresh, Resolve, OpenChain, CloseChain, svars
<1>5. QED
  BY <1>1, <1>2, <1>3, <1>4 DEF SandboxNext

(* The row of a run keeps its result, once it has one.                     *)
LEMMA RowIsFinal ==
  ASSUME Shape, Settled, [SandboxNext]_svars,
         row.status \in {"completed", "partial", "failed", "timed_out"},
         pc \in {"stop", "remove", "ended"}
  PROVE  row'.status = row.status /\ row'.review = row.review
<1>1. row \in Rows
  BY DEF Shape
<1> USE DEF Unsettled, Rows, SetRowIf, hostVars
<1>2. CASE Host
  BY <1>2 DEF Host, Start, Create, Record, Look, Poll, Mark, ApplyRules, LeaveSetupNet, JoinAgentNet,
       Signal, Wait, Collect, Except, StopBox, RemoveBox
<1>3. CASE CancelWrite
  BY <1>3 DEF CancelWrite
<1>4. CASE CancelReason
  BY <1>1, <1>4 DEF CancelReason
<1>5. CASE Container \/ Kill \/ CancelRead \/ CancelKill
  BY <1>5 DEF Container, Setup, AwaitSwitch, DropPrivileges, AgentEnds, OpenFile, WriteFile, Exit,
       Kill, CancelRead, CancelKill
<1>6. CASE Refresh \/ UNCHANGED svars
  BY <1>6 DEF Refresh, Resolve, OpenChain, CloseChain, svars
<1>7. QED
  BY <1>2, <1>3, <1>4, <1>5, <1>6 DEF SandboxNext, CancelRequest

(* Only Collect writes a result that claims files.                         *)
LEMMA Results ==
  ASSUME Shape, [SandboxNext]_svars, ~Collect
  PROVE  /\ row'.status \in {"completed", "partial"} => row'.status = row.status
         /\ row'.review = row.review
<1>1. row \in Rows
  BY DEF Shape
<1> USE DEF Unsettled, Rows, SetRow, SetRowIf, hostVars
<1>2. CASE Host
  BY <1>1, <1>2 DEF Host, Start, Create, Record, Look, Poll, Mark, ApplyRules, LeaveSetupNet,
       JoinAgentNet, Signal, Wait, Except, StopBox, RemoveBox
<1>3. CASE CancelWrite \/ CancelReason
  BY <1>1, <1>3 DEF CancelWrite, CancelReason
<1>4. CASE Container \/ Kill \/ CancelRead \/ CancelKill
  BY <1>4 DEF Container, Setup, AwaitSwitch, DropPrivileges, AgentEnds, OpenFile, WriteFile, Exit,
       Kill, CancelRead, CancelKill
<1>5. CASE Refresh \/ UNCHANGED svars
  BY <1>5 DEF Refresh, Resolve, OpenChain, CloseChain, svars
<1>6. QED
  BY <1>2, <1>3, <1>4, <1>5 DEF SandboxNext, CancelRequest

LEMMA OutcomeStep ==
  ASSUME Shape, Settled, Written, Outcome, [SandboxNext]_svars
  PROVE  Outcome'
<1>1. row \in Rows /\ row' \in Rows
  BY ShapeStep DEF Shape
<1>2. CASE row.status \in {"completed", "partial"}
  <2>1. step = "over" /\ pc \in {"stop", "remove", "ended"}
    BY <1>2 DEF Outcome
  <2>2. UNCHANGED files /\ step' = "over" /\ pc' \in {"stop", "remove", "ended"} /\ (cut => cut')
    BY <2>1, FilesAreFinal
  <2>3. row'.status = row.status /\ row'.review = row.review
    BY <1>2, <2>1, RowIsFinal
  <2>4. QED
    BY <2>1, <2>2, <2>3 DEF Outcome, Complete, Whole, HasDiff
<1>3. ASSUME row.status \notin {"completed", "partial"}, ~Collect
      PROVE  Outcome'
  <2>1. row'.status \notin {"completed", "partial"} /\ row'.review = row.review
    BY <1>3, Results
  <2>2. QED
    BY <1>1, <1>3, <2>1 DEF Outcome, Rows
<1>4. ASSUME row.status \notin {"completed", "partial"}, Collect
      PROVE  Outcome'
  <2>1. pc = "collect" /\ step = "over" /\ UNCHANGED <<files, step, cut>>
    BY <1>4 DEF Collect, Written, boxVars
  <2>2. ~row.review
    BY <1>1, <1>3, <1>4 DEF Outcome, Rows
  <2>3. ASSUME NEW s \in Collected, row' = [row EXCEPT !.status = s, !.review = (s = "partial")],
               files.result \in Reason \union {"error"}
        PROVE  Outcome'
    <3>1. row'.status = s /\ row'.review = (s = "partial")
      BY <1>1, <2>3 DEF Rows
    <3>2. pc' = "stop"
      BY <1>4, <2>3 DEF Collect, HostGoes, Reason
    <3>3. s = "completed" => files.result = "success"
      BY <2>3 DEF Collected, Reason
    <3>4. s = "partial" => HasDiff
      BY <2>3 DEF Collected, Reason
    <3>5. s = "completed" => cut \/ Complete
      BY <2>1, <3>3 DEF Written
    <3>6. QED
      BY <2>1, <3>1, <3>2, <3>3, <3>4, <3>5 DEF Outcome, Complete, Whole, HasDiff
  <2>4. ASSUME row'.status \notin {"completed", "partial"}, ~row'.review
        PROVE  Outcome'
    BY <2>4 DEF Outcome
  <2>5. CASE row' = [row EXCEPT !.status = "failed", !.category = "cost_exceeded", !.review = FALSE]
    BY <1>1, <2>4, <2>5 DEF Rows
  <2>6. CASE files.result = "none"
    BY <1>1, <1>4, <2>2, <2>4, <2>6 DEF Collect, Reason, SetRowIf, Rows
  <2>7. CASE UNCHANGED row
    BY <1>4, <2>2, <2>4, <2>7
  <2>8. QED
    BY <1>4, <2>3, <2>5, <2>6, <2>7 DEF Collect
<1>5. QED
  BY <1>2, <1>3, <1>4

-----------------------------------------------------------------------------
SandboxInv ==
  /\ Shape /\ HostValues /\ BoxValues /\ NetValues
  /\ Settled /\ Known /\ Switching
  /\ Written /\ Outcome

LEMMA SandboxInvInit == SandboxInit => SandboxInv
<1>1. SandboxInit => Shape
  BY DEF SandboxInit, Shape, Rows, Directories, Made, Nothing, NoFiles, Reason, Unsettled
<1>2. SandboxInit => HostValues /\ BoxValues /\ NetValues
  BY DEF SandboxInit, HostValues, BoxValues, NetValues
<1>3. SandboxInit => Settled /\ Known /\ Switching
  BY DEF SandboxInit, NoFiles, Settled, Known, KnownAreAllowed, Switching, Staged, Working, Writing,
         Artifact, BeforeWait, Unsettled
<1>4. SandboxInit => Written /\ Outcome
  BY DEF SandboxInit, NoFiles, Written, Outcome, Reason, Artifact
<1>5. QED
  BY <1>1, <1>2, <1>3, <1>4 DEF SandboxInv

LEMMA SandboxInvStep == SandboxInv /\ [SandboxNext]_svars => SandboxInv'
BY ShapeStep, HostValuesStep, BoxValuesStep, NetValuesStep, SettledStep, KnownStep, SwitchingStep,
   WrittenStep, OutcomeStep DEF SandboxInv

LEMMA Invariance == SandboxSpec => []SandboxInv
BY SandboxInvInit, SandboxInvStep, PTL DEF SandboxSpec

(* Every variable keeps its type, whatever is written where.               *)
THEOREM SandboxTypeTheorem == SandboxSpec => []SandboxTypeOK
<1>1. SandboxInv => SandboxTypeOK
  BY DEF SandboxInv, SandboxTypeOK, Shape, Rows, Directories, Made, HostValues, BoxValues, NetValues
<1>2. QED
  BY <1>1, Invariance, PTL

(* A completed run that was not cut short has its artifacts, a partial one *)
(* its diff, and a review is asked for a partial one only.                 *)
THEOREM OutcomeTheorem == SandboxSpec => []OutcomeMatchesFiles
<1>1. SandboxInv => OutcomeMatchesFiles
  BY DEF SandboxInv, Outcome, OutcomeMatchesFiles, Complete, Whole, Artifact
<1>2. QED
  BY <1>1, Invariance, PTL

(* Whichever await raises, and whatever a cancel request writes meanwhile, *)
(* the run leaves its row with an outcome.                                 *)
THEOREM SettledTheorem == SandboxSpec => []EndedRunIsSettled
<1>1. SandboxInv => EndedRunIsSettled
  BY DEF SandboxInv, Settled, EndedRunIsSettled
<1>2. QED
  BY <1>1, Invariance, PTL

(* An address the refresh loop will not add again has its rule, also if a  *)
(* script failed half-way or outlived the loop.                            *)
THEOREM KnownTheorem == SandboxSpec => []KnownAreAllowed
<1>1. SandboxInv => KnownAreAllowed
  BY DEF SandboxInv, Known
<1>2. QED
  BY <1>1, Invariance, PTL

(* The agent works on agent-net only, behind a closed chain but for the    *)
(* moments in which the refresh loop has it open, or failed to close it.   *)
THEOREM BehindTheorem == SandboxSpec => []AgentBehindRules
<1>1. SandboxInv => AgentBehindRules
  BY DEF SandboxInv, Switching, Staged, Behind, AgentBehindRules, Working, Writing, Artifact
<1>2. QED
  BY <1>1, Invariance, PTL
=============================================================================
