-------------------------- MODULE MCWorkflowDaemon --------------------------
(* Instances of WorkflowDaemon for TLC. *)
EXTENDS WorkflowDaemon
=============================================================================
