--------------------------- MODULE ResultContract ---------------------------
(***************************************************************************)
(* ResultContractService.write (lib/runtime/result-contract-service.mjs):  *)
(* a result is put in a temporary file of its own and linked to its path,  *)
(* which fails when the path exists; an existing file must have the same   *)
(* content. Writers of two processes, or of a job that runs again, meet at *)
(* one path. Content is what was rendered: a writer that builds it later   *)
(* has another instant in it.                                              *)
(* (LinkOver is a faulty form, used by no action.)                         *)
(***************************************************************************)
EXTENDS Naturals, FiniteSets

CONSTANTS
  Writers,         \* calls of write
  Contents,        \* renderings of the contract
  Nothing

VARIABLES
  target,          \* content at result_path
  temporaries,     \* writers whose temporary file is there, and if it is whole
  writer,          \* each call: its content, its step, its answer
  died

resultVars == <<target, temporaries, writer, died>>

Begun == "begun"
Whole == "whole"

\* No file is told from a file, and from one that is not whole.
ASSUME ResultAssumption == Nothing \notin Contents \cup {Begun, Whole}

ResultTypeOK ==
  /\ target \in Contents \cup {Nothing}
  /\ temporaries \in [Writers -> {Nothing, Begun, Whole}]
  /\ \A w \in Writers :
       /\ writer[w].step \in {"new", "temp", "link", "compare", "unlink", "done"}
       /\ writer[w].answer \in {"none", "written", "unchanged", "conflict"}
       /\ writer[w].step = "link" => temporaries[w] = Whole
       /\ (writer[w].step = "done" /\ w \notin died) => temporaries[w] = Nothing

ResultInit ==
  /\ target = Nothing /\ died = {}
  /\ temporaries = [w \in Writers |-> Nothing]
  /\ writer \in [Writers -> [step : {"new"}, answer : {"none"}, content : Contents]]

-----------------------------------------------------------------------------
Goes(w, step) == writer' = [writer EXCEPT ![w].step = step]
Answers(w, answer) ==
  writer' = [writer EXCEPT ![w].answer = answer,
                           ![w].step = IF temporaries[w] = Nothing THEN "done" ELSE "unlink"]

LookForTarget(w) ==
  /\ writer[w].step = "new"
  /\ Goes(w, IF target = Nothing THEN "temp" ELSE "compare")
  /\ UNCHANGED <<target, temporaries, died>>

OpenTemporary(w) ==
  /\ writer[w].step = "temp" /\ temporaries[w] = Nothing
  /\ temporaries' = [temporaries EXCEPT ![w] = Begun]
  /\ UNCHANGED <<target, writer, died>>

\* writeFileSync, fsyncSync, closeSync
WriteTemporary(w) ==
  /\ writer[w].step = "temp" /\ temporaries[w] = Begun
  /\ temporaries' = [temporaries EXCEPT ![w] = Whole]
  /\ Goes(w, "link")
  /\ UNCHANGED <<target, died>>

LinkOver == TRUE
Linkable == target = Nothing

LinkTarget(w) ==
  /\ writer[w].step = "link"
  /\ IF Linkable
     THEN /\ target' = writer[w].content
          /\ Answers(w, "written")
     ELSE /\ Goes(w, "compare")
          /\ UNCHANGED target
  /\ UNCHANGED <<temporaries, died>>

Existing(w) == IF target = writer[w].content THEN "unchanged" ELSE "conflict"

CompareExisting(w) ==
  /\ writer[w].step = "compare"
  /\ Answers(w, Existing(w))
  /\ UNCHANGED <<target, temporaries, died>>

\* finally
UnlinkTemporary(w) ==
  /\ writer[w].step = "unlink"
  /\ temporaries' = [temporaries EXCEPT ![w] = Nothing]
  /\ Goes(w, "done")
  /\ UNCHANGED <<target, died>>

\* Nobody looks for the temporary file of a writer that died.
WriterDies(w) ==
  /\ writer[w].step \notin {"new", "done"}
  /\ Goes(w, "done")
  /\ died' = died \cup {w}
  /\ UNCHANGED <<target, temporaries>>

ResultNext ==
  \E w \in Writers :
    \/ LookForTarget(w) \/ OpenTemporary(w) \/ WriteTemporary(w) \/ LinkTarget(w)
    \/ CompareExisting(w) \/ UnlinkTemporary(w) \/ WriterDies(w)

ResultSpec == ResultInit /\ [][ResultNext]_resultVars

-----------------------------------------------------------------------------
(* Every writer that was told "written" or "unchanged" has its own content   *)
(* at the path, whoever else wrote, looked first or died; and it stays.      *)
AnswerHolds ==
  \A w \in Writers : writer[w].answer \in {"written", "unchanged"} => target = writer[w].content

(* One writer at most is told "written", and a conflict means that another   *)
(* writer's content is there.                                                *)
OneWritten ==
  /\ Cardinality({w \in Writers : writer[w].answer = "written"}) <= 1
  /\ \A w \in Writers : writer[w].answer = "conflict" =>
       \E v \in Writers : v # w /\ target = writer[v].content

(* What write's answers mean, both of the above.                              *)
AnswersTrue == AnswerHolds /\ OneWritten
=============================================================================
