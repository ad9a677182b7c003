------------------------ MODULE MCRuntimePrimitives ------------------------
(* Two schedules of one time unit and of two; three runners, of which       *)
(* first and second run under one runner id, as a runner and its restart.   *)
EXTENDS RuntimePrimitives

CONSTANTS often, rarely, first, second, other

MCEvery == [s \in ScheduleIds |-> IF s = often THEN 1 ELSE 2]
MCRunnerOf == [w \in Workers |-> IF w = other THEN "other" ELSE "same"]

\* Every plan over the nodes 1, 2, ..., cyclic or dangling ones too; of the
\* acyclic ones, which are the same up to names, those that go downwards.
MCPlans ==
  {plan \in UNION {[ids : {S}, depends_on : [S -> SUBSET Nodes]] : S \in (SUBSET Nodes) \ {{}}} :
     Acyclic(plan) => \A n \in plan.ids : plan.depends_on[n] \subseteq 1..(n - 1)}

\* One that frees a node of the dependencies it had.
MCReplans == {[ids |-> {2}, depends_on |-> [n \in {2} |-> {}]]}
=============================================================================
