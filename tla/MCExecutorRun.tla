--------------------------- MODULE MCExecutorRun ---------------------------
(* A Codex and a Claude run over two files: both are in the scope of both,  *)
(* but Claude's task forbids the second; only Codex's may delete.           *)
EXTENDS ExecutorRun
CONSTANTS codex, claude
MCAllowed == [r \in Runs |-> Paths]
MCForbidden == [r \in Runs |-> IF r = claude THEN {2} ELSE {}]
MCStarts == {[p \in Paths |-> "old"], [p \in Paths |-> IF p = 1 THEN "old" ELSE "none"]}
Output(terminal, error, bad, session, code) ==
  [terminal |-> terminal, is_error |-> error, bad |-> bad, session |-> session, code |-> code]
MCOutputs == {Output("completed", FALSE, FALSE, "same", 0),
              Output("completed", TRUE, FALSE, "same", 0),
              Output("none", FALSE, TRUE, "other", 1)}
============================================================================
