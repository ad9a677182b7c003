------------------------- MODULE MCAgentWorkflow -------------------------
(* A plan of two managed files: the marker beside the task documents, and  *)
(* one file beside the results.                                            *)
EXTENDS AgentWorkflow, TLC
CONSTANTS docs, agentResults
MCPlan == <<"marker", "results/README">>
MCDirOf == [f \in Files |-> IF f = "marker" THEN docs ELSE agentResults]
MCFound == {[files |-> {}, dirs |-> {docs}],
            [files |-> {"results/README"}, dirs |-> {agentResults}]}
MCSymmetry == Permutations(Operators)
==========================================================================
