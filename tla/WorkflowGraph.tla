--------------------------- MODULE WorkflowGraph ---------------------------
(***************************************************************************)
(* WorkflowGraph (lib/runtime/workflow-graph.mjs) over the rows of one run *)
(* in workflow_nodes. create checks a whole plan and then saves it node by *)
(* node; runners take ready nodes and complete them. Nothing claims a      *)
(* node, complete reads it and upserts it in two statements, and a caller  *)
(* may create the run again at any time. The depth-first visit that looks  *)
(* for a cycle is modelled call by call, in whatever order its lists are;  *)
(* only its caller sees it, and other processes go on meanwhile.           *)
(* (StillVisiting and AnyEnded are faulty forms, used by no action.)       *)
(***************************************************************************)
EXTENDS Naturals, Sequences, SequencesExt

CONSTANTS
  Nodes, GraphActors,
  Plans,           \* what create may be given first,
  Replans,         \* and what it may be given for the same run again
  MaxCreates,
  NoNode

\* A plan is any set of nodes that depend on nodes, cyclic or dangling.
ASSUME PlanAssumption ==
  \A plan \in Plans \cup Replans :
    plan.ids \subseteq Nodes /\ plan.depends_on \in [plan.ids -> SUBSET Nodes]

VARIABLES
  node,            \* workflow_nodes, by node_id
  submitted,       \* the plan of the last create
  verdict,         \* "none", "visiting", "refused" or "accepted"
  visit,           \* visit's locals: calls under way, the two sets, what is left
  saving,          \* nodes create has still to save
  acting,          \* each runner: the node it took, the row complete read
  rewritten,       \* nodes created again, or completed a second time
  creates

graphVars == <<node, submitted, verdict, visit, saving, acting, rewritten, creates>>

NoPlan == [ids |-> {}, depends_on |-> [n \in {} |-> {}]]
Row(s, deps, result) == [status |-> s, depends_on |-> deps, result |-> result]
NoRow == Row("absent", {}, "none")
NoVisit == [stack |-> <<>>, visiting |-> {}, visited |-> {}, roots |-> {}, left |-> NoPlan.depends_on]
Resting == [step |-> "idle", node |-> NoNode, row |-> NoRow]

\* Acyclic: every set of nodes has one that depends on none of the set.
Acyclic(plan) == \A S \in (SUBSET plan.ids) \ {{}} : \E n \in S : plan.depends_on[n] \cap S = {}

\* A caller also creates the run again with the plan that a create died on.
Unfinished == verdict = "accepted" /\ \E n \in submitted.ids : node[n] = NoRow
Submissions ==
  IF creates = 0 THEN Plans ELSE Replans \cup {p \in {submitted} : Unfinished}

GraphTypeOK ==
  /\ \A n \in Nodes : node[n] = NoRow \/
       /\ node[n].status \in {"PENDING", "COMPLETED"} /\ node[n].depends_on \subseteq Nodes \ {n}
       /\ (node[n].status = "COMPLETED") <=> (node[n].result # "none")
  /\ verdict \in {"none", "visiting", "refused", "accepted"}
  /\ verdict # "visiting" => visit = NoVisit
  /\ visit.stack \in Seq(submitted.ids) /\ visit.visited \subseteq submitted.ids
  /\ saving \subseteq submitted.ids /\ rewritten \subseteq Nodes
  /\ \A a \in GraphActors : acting[a].step \in {"idle", "run", "upsert"}

GraphInit ==
  /\ node = [n \in Nodes |-> NoRow]
  /\ submitted = NoPlan /\ verdict = "none" /\ visit = NoVisit /\ saving = {}
  /\ acting = [a \in GraphActors |-> Resting]
  /\ rewritten = {} /\ creates = 0

-----------------------------------------------------------------------------
\* Unknown dependencies, and a node's dependency on itself, are looked for first.
Malformed(plan) == \E n \in plan.ids : ~(plan.depends_on[n] \subseteq plan.ids \ {n})

Create(plan) ==
  /\ creates < MaxCreates /\ saving = {} /\ verdict # "visiting"
  /\ creates' = creates + 1
  /\ submitted' = plan
  /\ IF Malformed(plan) THEN verdict' = "refused" /\ UNCHANGED visit
     ELSE /\ verdict' = "visiting"
          /\ visit' = [NoVisit EXCEPT !.roots = plan.ids, !.left = plan.depends_on]
  /\ UNCHANGED <<node, saving, acting, rewritten>>

\* The visits the innermost loop has still to make: over all the nodes, or
\* over the dependencies of the node being visited.
Top == Last(visit.stack)
Upcoming == IF visit.stack = <<>> THEN visit.roots ELSE visit.left[Top]
Called(d) ==
  IF visit.stack = <<>> THEN [visit EXCEPT !.roots = @ \ {d}]
  ELSE [visit EXCEPT !.left[Top] = @ \ {d}]

Visit(d) ==
  /\ verdict = "visiting" /\ d \in Upcoming
  /\ \/ /\ d \in visit.visiting
        /\ verdict' = "refused" /\ visit' = NoVisit
     \/ /\ d \in visit.visited \ visit.visiting
        /\ visit' = Called(d) /\ UNCHANGED verdict
     \/ /\ d \notin visit.visited \cup visit.visiting
        /\ visit' = [Called(d) EXCEPT !.stack = Append(@, d), !.visiting = @ \cup {d}]
        /\ UNCHANGED verdict
  /\ UNCHANGED <<node, submitted, saving, acting, rewritten, creates>>

StillVisiting(n) == visit.visiting
Unvisiting(n) == visit.visiting \ {n}

EndVisit ==
  /\ verdict = "visiting" /\ visit.stack # <<>> /\ Upcoming = {}
  /\ visit' = [visit EXCEPT !.stack = Front(@), !.visiting = Unvisiting(Top),
                            !.visited = @ \cup {Top}]
  /\ UNCHANGED <<node, submitted, verdict, saving, acting, rewritten, creates>>

EndVisits ==
  /\ verdict = "visiting" /\ visit.stack = <<>> /\ Upcoming = {}
  /\ verdict' = "accepted" /\ saving' = submitted.ids
  /\ visit' = NoVisit
  /\ UNCHANGED <<node, submitted, acting, rewritten, creates>>

SaveNode(n, r) ==
  /\ node' = [node EXCEPT ![n] = r]
  /\ rewritten' = IF node[n].status \in {"absent", "PENDING"} \ {r.status}
                  THEN rewritten ELSE rewritten \cup {n}

CreateNode(n) ==
  /\ n \in saving
  /\ saving' = saving \ {n}
  /\ SaveNode(n, Row("PENDING", submitted.depends_on[n], "none"))
  /\ UNCHANGED <<submitted, verdict, visit, acting, creates>>

\* A caller that dies while it visits has saved nothing.
CreateDies ==
  /\ saving # {} \/ verdict = "visiting"
  /\ saving' = {} /\ visit' = NoVisit
  /\ verdict' = IF verdict = "visiting" THEN "none" ELSE verdict
  /\ UNCHANGED <<node, submitted, acting, rewritten, creates>>

AnyEnded(d) == node[d].status = "COMPLETED"
PassedNode(d) == node[d].status = "COMPLETED" /\ node[d].result = "PASS"
Ready == {n \in Nodes : node[n].status = "PENDING" /\ \A d \in node[n].depends_on : PassedNode(d)}

\* What a runner does between the two is not this code; several may take one.
TakeReady(a, n) ==
  /\ acting[a].step = "idle" /\ n \in Ready
  /\ acting' = [acting EXCEPT ![a] = [step |-> "run", node |-> n, row |-> NoRow]]
  /\ UNCHANGED <<node, submitted, verdict, visit, saving, rewritten, creates>>

\* complete lists the nodes; one that is not PENDING throws.
StartComplete(a) ==
  /\ acting[a].step = "run"
  /\ LET r == node[acting[a].node]
     IN acting' = [acting EXCEPT ![a] =
          IF r.status = "PENDING" THEN [@ EXCEPT !.step = "upsert", !.row = r] ELSE Resting]
  /\ UNCHANGED <<node, submitted, verdict, visit, saving, rewritten, creates>>

CompleteNode(a, result) ==
  /\ acting[a].step = "upsert"
  /\ SaveNode(acting[a].node, Row("COMPLETED", acting[a].row.depends_on, result))
  /\ acting' = [acting EXCEPT ![a] = Resting]
  /\ UNCHANGED <<submitted, verdict, visit, saving, creates>>

GraphNext ==
  \/ \E plan \in Submissions : Create(plan)
  \/ \E n \in Nodes : Visit(n) \/ CreateNode(n)
  \/ EndVisit \/ EndVisits \/ CreateDies
  \/ \E a \in GraphActors :
       \/ \E n \in Nodes : TakeReady(a, n)
       \/ StartComplete(a)
       \/ \E result \in {"PASS", "FAIL"} : CompleteNode(a, result)

GraphSpec == GraphInit /\ [][GraphNext]_graphVars

-----------------------------------------------------------------------------
(* create refuses exactly the plans that have a cycle or depend on a node    *)
(* they do not have: its visits agree with the definition on every plan.     *)
CyclesRefused ==
  verdict \in {"refused", "accepted"} =>
    ((verdict = "accepted")
      <=> (Acyclic(submitted) /\ UNION {submitted.depends_on[n] : n \in submitted.ids} \subseteq submitted.ids))

(* A node that has a result has dependencies that passed: the barrier of     *)
(* architecture.md holds however runners race, except behind a node whose    *)
(* result was written over by a second runner or a second create, or one     *)
(* that was created again itself.                                            *)
BarrierHeld ==
  \A n \in Nodes \ rewritten : node[n].status = "COMPLETED" =>
    \A d \in node[n].depends_on :
      node[d] = Row("COMPLETED", node[d].depends_on, "PASS") \/ d \in rewritten

(* A run whose plan was saved in full does not get stuck, whatever was saved *)
(* before it and whoever completes: as long as no node has failed, one is    *)
(* ready or all are done.                                                    *)
GraphNotStuck ==
  (verdict = "accepted" /\ \A n \in submitted.ids :
     \/ node[n].status = "COMPLETED"
     \/ node[n] = Row("PENDING", submitted.depends_on[n], "none"))
    => \/ Ready # {}
       \/ \A n \in submitted.ids : node[n].status = "COMPLETED"
       \/ \E n \in submitted.ids : node[n].result = "FAIL"

(* A plan is accepted when it is acyclic, and then it can be run to its end,  *)
(* both of the above.                                                         *)
PlansRunToTheEnd == CyclesRefused /\ GraphNotStuck
=============================================================================
