------------------------- MODULE RuntimePrimitives -------------------------
(***************************************************************************)
(* The runtime primitives of docs/architecture.md and the publication of   *)
(* results and notices: six components that share no state, so that a      *)
(* behaviour moves one of them, chosen at the start.                       *)
(***************************************************************************)
EXTENDS Schedules, Notifications, RemoteRunner, WorkflowGraph, WatchStream, ResultContract

VARIABLE part

vars == <<part, scheduleVars, notifyVars, runnerVars, graphVars, watchVars, resultVars>>

Init ==
  /\ part \in {"schedules", "notices", "runners", "graph", "watch", "results"}
  /\ ScheduleInit /\ NotifyInit /\ RunnerInit /\ GraphInit /\ WatchInit
  /\ ResultInit
  /\ part # "results" => \A w \in Writers : writer[w].content = CHOOSE c \in Contents : TRUE

Schedules(A) == part = "schedules" /\ A /\ UNCHANGED part
  /\ UNCHANGED <<notifyVars, runnerVars, graphVars, watchVars, resultVars>>
Notices(A) == part = "notices" /\ A /\ UNCHANGED part
  /\ UNCHANGED <<scheduleVars, runnerVars, graphVars, watchVars, resultVars>>
Runners(A) == part = "runners" /\ A /\ UNCHANGED part
  /\ UNCHANGED <<scheduleVars, notifyVars, graphVars, watchVars, resultVars>>
Graph(A) == part = "graph" /\ A /\ UNCHANGED part
  /\ UNCHANGED <<scheduleVars, notifyVars, runnerVars, watchVars, resultVars>>
Watch(A) == part = "watch" /\ A /\ UNCHANGED part
  /\ UNCHANGED <<scheduleVars, notifyVars, runnerVars, graphVars, resultVars>>
Results(A) == part = "results" /\ A /\ UNCHANGED part
  /\ UNCHANGED <<scheduleVars, notifyVars, runnerVars, graphVars, watchVars>>

Next ==
  \/ Schedules(ScheduleNext) \/ Notices(NotifyNext) \/ Runners(RunnerNext)
  \/ Graph(GraphNext) \/ Watch(WatchNext) \/ Results(ResultNext)

(* A host's dispatcher goes on.                                             *)
Spec ==
  /\ Init /\ [][Next]_vars
  /\ \A h \in Senders : WF_vars(Notices(DrainStep(h)))

-----------------------------------------------------------------------------
(* The tables and the calls under way have their types in every component.   *)
TypeOK ==
  ScheduleTypeOK /\ NotifyTypeOK /\ RunnerTypeOK /\ GraphTypeOK /\ WatchTypeOK /\ ResultTypeOK
=============================================================================
