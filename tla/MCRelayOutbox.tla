--------------------------- MODULE MCRelayOutbox ----------------------------
(* All events belong to one workflow, except those of one revision.          *)
EXTENDS RelayOutbox, TLC

CONSTANTS w1, w2, Apart

MCWorkflowOf == [e \in Events |-> IF e = Apart THEN w2 ELSE w1]

\* Hosts do not differ; used where only safety is checked.
HostSymmetry == Permutations(Hosts)
=============================================================================
