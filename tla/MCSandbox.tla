----------------------------- MODULE MCSandbox ------------------------------
(* Instances of SandboxRun and TaskStream for TLC.                         *)
EXTENDS TaskStream

EveryEvent == {"cancel", "kill", "docker", "disk"}
=============================================================================
