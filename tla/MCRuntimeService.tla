-------------------------- MODULE MCRuntimeService --------------------------
(* Instances of RuntimeService for TLC. *)
EXTENDS RuntimeService
MCJobs1 == {1}
MCJobs2 == {1, 2}
=============================================================================
