-------------------------- MODULE OneWorkerProofs --------------------------
(***************************************************************************)
(* What WorkflowDaemon promises while one worker is at work at a time,     *)
(* which is what the service lease is for (RuntimeServiceProofs). Any      *)
(* number of crashes, recoveries, restarts, answers and operators remain,  *)
(* for any budgets. With a stalled worker beside its replacement these     *)
(* promises do not hold: both write the workflow row from what they know.  *)
(***************************************************************************)
EXTENDS WorkflowDaemonProofs, FiniteSetTheorems

OneWorker == \A v, x \in Workers : v = x

Inside == {"matching", "looping", "launching", "executing", "judging", "deciding", "parking"}

-----------------------------------------------------------------------------
(* The budget. A launch is counted in the row before it happens, and what a  *)
(* worker counts from is the row.                                            *)

Counted(w) ==
  /\ pc[w] \in Inside => loc[w].tries = wf.tries
  /\ pc[w] = "launching" => launches < wf.tries

BudgetInv == launches <= wf.tries /\ \A w \in Workers : Counted(w)

LEMMA BudgetInit == Init => BudgetInv
  BY DEF Init, BudgetInv, Counted, Inside, Row, Fresh

\* A step of the worker that launches nothing and leaves the count alone.
LEMMA BudgetKept ==
  ASSUME OneWorker, NEW w \in Workers, BudgetInv,
         wf'.tries = wf.tries, launches' = launches, pc'[w] # "launching",
         pc'[w] \in Inside => loc'[w].tries = wf.tries
  PROVE  BudgetInv'
  BY DEF BudgetInv, Counted, OneWorker

LEMMA ChosenTries ==
  ASSUME IInv, NEW w \in Workers
  PROVE  /\ loc[w] \in Locals /\ wf \in WorkflowRow
         /\ \A s \in States : [loc[w] EXCEPT !.park = s].tries = loc[w].tries
         /\ Restore(wf).tries = wf.tries
         /\ \A s \in States : [Restore(wf) EXCEPT !.park = s].tries = wf.tries
         /\ \A g \in SUBSET Auths : [Restore(wf) EXCEPT !.grants = @ \cup g].tries = wf.tries
         /\ Decided(w).tries = loc[w].tries
         /\ \A n \in Nat : [Decided(w) EXCEPT !.sess = n].tries = loc[w].tries
         /\ \A n \in Nat, s \in States :
              [[Decided(w) EXCEPT !.sess = n] EXCEPT !.park = s].tries = loc[w].tries
         /\ [wf EXCEPT !.state = "FAILED"].tries = wf.tries
  <1>1. loc[w] \in Locals /\ wf \in WorkflowRow /\ Restore(wf) \in Locals
        BY RestoreType DEF IInv, TypeOK
  <1>2. Restore(wf).tries = wf.tries
        BY FreshType DEF Restore, Locals
  <1>3. Decided(w).tries = loc[w].tries /\ DOMAIN Decided(w) = DOMAIN loc[w]
        BY <1>1 DEF Decided, Locals
  <1>4. \A n \in Nat : [Decided(w) EXCEPT !.sess = n].tries = loc[w].tries
        BY <1>1 DEF Decided, Locals
  <1>5. \A n \in Nat, s \in States :
          [[Decided(w) EXCEPT !.sess = n] EXCEPT !.park = s].tries = loc[w].tries
        BY <1>1 DEF Decided, Locals
  <1>6. [wf EXCEPT !.state = "FAILED"].tries = wf.tries
        BY <1>1 DEF WorkflowRow
  <1>7. \A s \in States : [loc[w] EXCEPT !.park = s].tries = loc[w].tries
        BY <1>1 DEF Locals
  <1>8. \A s \in States : [Restore(wf) EXCEPT !.park = s].tries = wf.tries
        BY <1>1, <1>2 DEF Locals
  <1>9. \A g \in SUBSET Auths : [Restore(wf) EXCEPT !.grants = @ \cup g].tries = wf.tries
        BY <1>1, <1>2 DEF Locals
  <1> QED BY <1>1, <1>2, <1>3, <1>4, <1>5, <1>6, <1>7, <1>8, <1>9

LEMMA BudgetCycle ==
  ASSUME OneWorker, IInv, BudgetInv, NEW w \in Workers, Cycle(w) \/ Crash(w)
  PROVE  BudgetInv'
  <1>0. /\ pc \in [Workers -> Pcs] /\ loc \in [Workers -> Locals] /\ loc[w] \in Locals
        /\ wf.tries \in Nat /\ launches \in Nat /\ loc[w].tries \in Nat
    <2>1. loc[w] \in Locals /\ wf \in WorkflowRow
          BY DEF IInv, TypeOK
    <2> QED BY <2>1, BudgetAssumption DEF IInv, TypeOK, Locals, WorkflowRow
  <1>a. {"FAILED", "WAITING_FOR_CAPABILITY", "WAITING_FOR_HUMAN", "WAITING_FOR_APPROVAL", "PAUSED"}
          \subseteq States
        BY DEF States, Terminal, Parked
  <1>b. Counted(w)
        BY DEF BudgetInv
  <1>1. ASSUME NEW s \in DOMAIN session, MarkLost(w, s) PROVE BudgetInv'
    <2>1. wf'.tries = wf.tries
          BY <1>1, ChosenTries DEF MarkLost
    <2> QED BY <1>1, <2>1, BudgetKept DEF MarkLost, procVars, Inside
  <1>2. CASE Reconciled(w) \/ NoJob(w) \/ Settle(w) \/ Crash(w) \/ \E j \in JobIds : Claim(w, j)
    <2>1. /\ pc'[w] \in {"idle", "polling", "claimed"} /\ wf' = wf /\ launches' = launches
          BY <1>0, <1>2 DEF Reconciled, NoJob, Settle, Crash, Claim, Goto, rowVars, procVars
    <2> QED BY <2>1, BudgetKept DEF Inside
  <1>3. CASE \/ Skip(w) \/ RefuseTask(w) \/ RefuseResume(w) \/ DecisionFails(w) \/ Deny(w)
    <2>1. pc'[w] \in {"done", "failing"} /\ launches' = launches
          BY <1>0, <1>3 DEF Skip, RefuseTask, RefuseResume, DecisionFails, Deny, Goto, procVars
    <2>2. wf'.tries = wf.tries
          BY <1>3, ChosenTries DEF Skip, RefuseTask, RefuseResume, DecisionFails, Deny, rowVars
    <2> QED BY <2>1, <2>2, BudgetKept DEF Inside
  <1>4. CASE Recover(w)
    <2>1. /\ loc'[w] = [Restore(wf) EXCEPT !.park = "PAUSED"] /\ wf' = wf
          /\ launches' = launches /\ pc'[w] = "parking"
          BY <1>0, <1>4 DEF Recover, Goto, procVars
    <2> QED BY <1>a, <2>1, ChosenTries, BudgetKept
  <1>5. CASE RunTask(w)
    <2>1. /\ loc'[w] = Fresh /\ wf' = Row(Fresh, "RUNNING") /\ launches' = 0
          /\ pc'[w] \in {"matching", "failing", "done"}
          BY <1>0, <1>5 DEF RunTask, Goto
    <2>2. Fresh.tries = 0 /\ wf'.tries = 0
          BY <2>1 DEF Row, Fresh
    <2>3. Counted(w)' /\ launches' <= wf'.tries
          BY <2>1, <2>2 DEF Counted
    <2> QED BY <2>3 DEF BudgetInv, OneWorker
  <1>6. CASE ResumeWorkflow(w)
    <2> DEFINE new == IF Type(w) = "approval.granted" THEN Granted(job[doing[w]].att) ELSE {}
               l == [Restore(wf) EXCEPT !.grants = @ \cup new]
    <2>1. l.tries = wf.tries
      <3>1. new \in SUBSET Auths
            BY DEF Granted
      <3> HIDE DEF new
      <3> QED BY <3>1, ChosenTries
    <2>2. /\ loc'[w] = l /\ wf' = Row(l, "RUNNING") /\ launches' = launches /\ pc'[w] = "matching"
          BY <1>0, <1>6 DEF ResumeWorkflow, Goto, procVars
    <2> HIDE DEF l
    <2>3. wf'.tries = wf.tries
          BY <2>1, <2>2 DEF Row
    <2> QED BY <2>1, <2>2, <2>3, BudgetKept
  <1>7. CASE NoExecutor(w) \/ Exhaust(w) \/ ExecutorFails(w)
             \/ \E auth \in Auths \cup {None} : AskPermission(w, auth)
    <2>1. PICK s \in States : loc' = [loc EXCEPT ![w] = [loc[w] EXCEPT !.park = s]]
          BY <1>a, <1>7 DEF NoExecutor, Exhaust, ExecutorFails, AskPermission, RaiseAndPark
    <2>2. /\ pc[w] \in Inside /\ pc'[w] = "parking" /\ wf' = wf /\ launches' = launches
          BY <1>0, <1>7 DEF NoExecutor, Exhaust, ExecutorFails, AskPermission, RaiseAndPark, Goto,
             procVars, Inside
    <2>3. loc'[w].tries = loc[w].tries
          BY <1>0, <2>1, ChosenTries
    <2> QED BY <1>b, <2>2, <2>3, BudgetKept DEF Counted
  <1>8. CASE Match(w) \/ Announce(w) \/ \E res \in {"PASS", "FAIL"} : Finish(w, res)
    <2>1. /\ pc[w] \in Inside /\ pc'[w] \in {"looping", "executing", "judging"}
          /\ wf' = wf /\ launches' = launches
          BY <1>0, <1>8 DEF Match, Announce, Finish, Goto, rowVars, procVars, Inside
    <2>2. loc'[w].tries = loc[w].tries
      <3>1. CASE Match(w)
            BY <3>1 DEF Match
      <3>2. CASE Announce(w)
        <4>1. [loc[w] EXCEPT !.cur = loc[w].att].tries = loc[w].tries
              BY <1>0 DEF Locals
        <4> QED BY <1>0, <3>2, <4>1 DEF Announce
      <3>3. ASSUME NEW res, Finish(w, res) PROVE loc'[w].tries = loc[w].tries
        <4>1. [loc[w] EXCEPT !.res = res].tries = loc[w].tries
              BY <1>0 DEF Locals
        <4> QED BY <1>0, <3>3, <4>1 DEF Finish
      <3> QED BY <1>8, <3>1, <3>2, <3>3
    <2> QED BY <1>b, <2>1, <2>2, BudgetKept DEF Counted
  <1>9. CASE StartAttempt(w)
    <2> DEFINE l == [loc[w] EXCEPT !.tries = @ + 1, !.att = Len(attempt) + 1, !.cur = loc[w].sess,
                                   !.res = "none"]
    <2>1. l.tries = loc[w].tries + 1
          BY <1>0 DEF Locals
    <2>2. /\ loc'[w] = l /\ wf' = Row(l, "RUNNING") /\ launches' = launches
          /\ pc[w] = "looping"
          BY <1>0, <1>9 DEF StartAttempt, procVars
    <2> HIDE DEF l
    <2>3. wf'.tries = wf.tries + 1 /\ loc'[w].tries = wf'.tries
          BY <1>b, <2>1, <2>2 DEF Counted, Inside, Row
    <2>4. Counted(w)' /\ launches' <= wf'.tries
          BY <1>0, <2>2, <2>3 DEF Counted, BudgetInv
    <2> QED BY <2>4 DEF BudgetInv, OneWorker
  <1>10. CASE Launch(w)
    <2>1. /\ pc[w] = "launching" /\ pc'[w] = "executing" /\ launches' = launches + 1
          /\ wf' = wf /\ loc' = loc
          BY <1>0, <1>10 DEF Launch, Goto
    <2>2. Counted(w)' /\ launches' <= wf'.tries
          BY <1>0, <1>b, <2>1 DEF Counted, Inside
    <2> QED BY <2>2 DEF BudgetInv, OneWorker
  <1>11. CASE Verify(w) \/ Park(w)
    <2>1. /\ pc[w] \in Inside /\ pc'[w] \in {"deciding", "done"} /\ wf'.tries = loc[w].tries
          /\ launches' = launches /\ loc' = loc
          BY <1>0, <1>11 DEF Verify, Park, Goto, Row, procVars, Inside
    <2> QED BY <1>b, <2>1, BudgetKept DEF Counted
  <1>12. ASSUME NEW state, DecideState(w, state) PROVE BudgetInv'
    <2>1. /\ pc[w] = "deciding" /\ pc'[w] = "done" /\ wf'.tries = Decided(w).tries
          /\ launches' = launches
          BY <1>0, <1>12 DEF DecideState, Goto, Row, procVars
    <2>2. wf'.tries = wf.tries
          BY <1>b, <2>1, ChosenTries DEF Counted, Inside
    <2> QED BY <2>1, <2>2, BudgetKept DEF Inside
  <1>13. ASSUME NEW sess \in Nat, DecideLoop(w, sess) PROVE BudgetInv'
    <2>1. /\ pc[w] = "deciding" /\ pc'[w] = "looping" /\ wf' = wf /\ launches' = launches
          /\ loc'[w] = [Decided(w) EXCEPT !.sess = sess]
          BY <1>0, <1>13 DEF DecideLoop, Goto, rowVars, procVars
    <2>2. loc'[w].tries = wf.tries
          BY <1>b, <2>1, ChosenTries DEF Counted, Inside
    <2> QED BY <2>1, <2>2, BudgetKept
  <1>14. ASSUME NEW kind, NEW state \in States, DecideAsk(w, kind, state) PROVE BudgetInv'
    <2>1. /\ pc[w] = "deciding" /\ pc'[w] = "parking" /\ wf' = wf /\ launches' = launches
          /\ loc'[w] = [[Decided(w) EXCEPT !.sess = loc[w].cur] EXCEPT !.park = state]
          BY <1>0, <1>14 DEF DecideAsk, RaiseAndPark, Goto, procVars
    <2>2. loc[w].cur \in Nat
          BY <1>0 DEF Locals
    <2>3. loc'[w].tries = wf.tries
          BY <1>b, <2>1, <2>2, ChosenTries DEF Counted, Inside
    <2> QED BY <2>1, <2>3, BudgetKept
  <1>15. loc[w].cur \in Nat /\ 0 \in Nat
        BY <1>0 DEF Locals
  <1> QED BY <1>a, <1>1, <1>2, <1>3, <1>4, <1>5, <1>6, <1>7, <1>8, <1>9, <1>10, <1>11, <1>12, <1>13,
             <1>14, <1>15 DEF Cycle

LEMMA BudgetNext == OneWorker /\ IInv /\ BudgetInv /\ [Next]_vars => BudgetInv'
  <1> SUFFICES ASSUME OneWorker, IInv, BudgetInv, [Next]_vars PROVE BudgetInv'
      OBVIOUS
  <1>1. ASSUME NEW w \in Workers, Cycle(w) \/ Crash(w) PROVE BudgetInv'
        BY <1>1, BudgetCycle
  <1>2. CASE UNCHANGED <<wf, launches, pc, loc>>
        BY <1>2 DEF BudgetInv, Counted
  <1> QED BY <1>1, <1>2 DEF Next, Inputs, TaskEvent, Occurrence, Trigger, OperatorResume,
             ReadAttention, Respond, OrphanExits, LapseDead, LapseLive, vars, rowVars, procVars

(* Across retries, stops, resumes, crashes and recoveries a run of a task    *)
(* launches its executor at most maxAttempts times.                          *)
THEOREM BudgetKeptByOne == Spec => [](OneWorker => BudgetHonoured)
  <1>1. Init => IInv /\ (OneWorker => BudgetInv)
        BY InitTypes, BudgetInit
  <1>2. IInv /\ (OneWorker => BudgetInv) /\ [Next]_vars => IInv' /\ (OneWorker => BudgetInv)'
        BY StepTypes, BudgetNext DEF OneWorker
  <1>3. IInv /\ (OneWorker => BudgetInv) => (OneWorker => BudgetHonoured)
    <2> SUFFICES ASSUME IInv, BudgetInv PROVE BudgetHonoured
        OBVIOUS
    <2>1. wf.tries \in 0..MaxAttempts /\ launches \in Nat
          BY DEF IInv, TypeOK, WorkflowRow
    <2> QED BY <2>1, BudgetAssumption DEF BudgetInv, BudgetHonoured
  <1> QED BY <1>1, <1>2, <1>3, PTL DEF Spec

-----------------------------------------------------------------------------
(* No blind redispatch, of the one task job there is. A launch on its behalf *)
(* leaves the workflow row with an attempt counted, so that the handler that *)
(* gets the job a second time finds it over, parked, or uncertain.           *)

TaskIds == {"task"} \X (1..Tasks)
OnlyOneTask == OneWorker /\ Tasks <= 1 /\ Schedules = 0

LEMMA IdsApart ==
  /\ <<"resume", 0>> \notin TaskIds
  /\ \A n : /\ <<"sched", n>> \notin TaskIds /\ <<"event", n>> \notin TaskIds
            /\ <<"att", n>> \notin TaskIds /\ <<"key", n>> \notin TaskIds
  /\ OperatorKeys \cap TaskIds = {}
  /\ TaskIds \subseteq JobIds
  BY DEF TaskIds, OperatorKeys, JobIds

\* What each kind of job is for.
JobKinds ==
  /\ \A j \in JobIds : /\ job[j].type = "task.created" => j \in TaskIds
                       /\ job[j].type = "scheduled.task" => Schedules > 0
                       /\ job[j].status = "ABSENT" => job[j].tries = 0
  /\ \A j \in TaskIds : job[j].type \in {"none", "task.created"}
  /\ \A c \in commands : /\ c.type \in {"human.replied", "approval.granted", "approval.denied"}
                         /\ c.key \notin TaskIds

LEMMA KindsInit == Init => JobKinds
  <1> SUFFICES ASSUME Init PROVE JobKinds
      OBVIOUS
  <1>1. commands = {} /\ \A j \in JobIds : job[j].type = "none" /\ job[j].tries = 0
        BY DEF Init
  <1> QED BY <1>1, IdsApart DEF JobKinds

LEMMA InsertKinds ==
  ASSUME IInv, JobKinds, NEW j \in JobIds, NEW t \in JobTypes, NEW i \in Nat, Insert(j, t, i),
         t = "task.created" <=> j \in TaskIds, t = "scheduled.task" => Schedules > 0
  PROVE  /\ \A k \in JobIds : /\ job'[k].type = "task.created" => k \in TaskIds
                              /\ job'[k].type = "scheduled.task" => Schedules > 0
                              /\ job'[k].status = "ABSENT" => job'[k].tries = 0
                              /\ job'[k].tries = job[k].tries
         /\ \A k \in TaskIds : job'[k].type \in {"none", "task.created"}
  <1>1. job \in [JobIds -> JobRow]
        BY DEF IInv, TypeOK
  <1>2. CASE job' = job
        BY <1>2 DEF JobKinds
  <1>3. CASE /\ job[j].status = "ABSENT"
             /\ job'[j] = [type |-> t, status |-> "PENDING", tries |-> 0, att |-> i, holder |-> None]
             /\ \A k \in JobIds \ {j} : job'[k] = job[k]
    <2>1. job'[j].type = t /\ job'[j].status = "PENDING" /\ job'[j].tries = 0 /\ job[j].tries = 0
          BY <1>3 DEF JobKinds
    <2> QED BY <1>3, <2>1, IdsApart DEF JobKinds
  <1> QED BY <1>1, <1>2, <1>3, InsertType

\* A claim, a settlement or a lapse does not change what a job is for.
LEMMA KindsKept ==
  ASSUME JobKinds, commands' = commands,
         \A j \in JobIds : /\ job'[j].type = job[j].type
                           /\ job'[j].status = "ABSENT" => job'[j] = job[j]
  PROVE  JobKinds'
  BY IdsApart DEF JobKinds

\* What the steps of a worker do to the jobs' rows.
LEMMA JobSteps ==
  ASSUME IInv, NEW w \in Workers, Cycle(w) \/ Crash(w)
  PROVE  /\ \A j \in JobIds : /\ job'[j].type = job[j].type /\ job'[j].att = job[j].att
                              /\ job'[j].tries >= job[j].tries
                              /\ "ABSENT" \in {job[j].status, job'[j].status} => job'[j] = job[j]
         /\ commands' = commands
  <1>0. job \in [JobIds -> JobRow] /\ \A j \in JobIds : job[j].tries \in Nat
    <2>1. job \in [JobIds -> JobRow]
          BY DEF IInv, TypeOK
    <2> QED BY <2>1 DEF JobRow
  <1>1. CASE UNCHANGED <<jobVars, commands>>
        BY <1>0, <1>1 DEF jobVars
  <1>2. ASSUME NEW j \in JobIds, Claim(w, j)
        PROVE  /\ \A k \in JobIds : /\ job'[k].type = job[k].type /\ job'[k].att = job[k].att
                                    /\ job'[k].tries >= job[k].tries
                                    /\ "ABSENT" \in {job[k].status, job'[k].status} => job'[k] = job[k]
               /\ commands' = commands
    <2> DEFINE r == [job[j] EXCEPT !.status = "RUNNING", !.holder = w, !.tries = @ + 1]
    <2>1. job[j] \in JobRow
          BY <1>0
    <2>2. /\ r.type = job[j].type /\ r.att = job[j].att /\ r.tries = job[j].tries + 1
          /\ r.status = "RUNNING"
          BY <2>1 DEF JobRow
    <2>3. job' = [job EXCEPT ![j] = r] /\ job[j].status # "ABSENT" /\ commands' = commands
          BY <1>0, <1>2 DEF Claim, Claimable
    <2> HIDE DEF r
    <2>4. /\ job'[j] = r /\ \A k \in JobIds \ {j} : job'[k] = job[k]
          BY <1>0, <2>3
    <2>5. job'[j].tries >= job[j].tries
          BY <1>0, <2>2, <2>4
    <2>6. \A k \in JobIds \ {j} : job'[k].tries >= job[k].tries
          BY <1>0, <2>4
    <2> QED BY <2>2, <2>3, <2>4, <2>5, <2>6
  <1>3. CASE Settle(w) /\ Holds(doing[w], w)
    <2>1. PICK j \in JobIds : j = doing[w] /\ job[j].status = "RUNNING"
          BY <1>3 DEF Settle, IInv, BusyInv, Free, Holds
    <2>2. PICK end \in {"FAILED", "COMPLETED"} :
            job' = [job EXCEPT ![j].status = end, ![j].holder = None]
          BY <1>3, <2>1 DEF Settle
    <2> DEFINE r == [job[j] EXCEPT !.status = end, !.holder = None]
    <2>3. job[j] \in JobRow
          BY <1>0
    <2>4. r.type = job[j].type /\ r.att = job[j].att /\ r.tries = job[j].tries /\ r.status = end
          BY <2>3 DEF JobRow
    <2>5. job' = [job EXCEPT ![j] = r]
          BY <1>0, <2>2
    <2> HIDE DEF r
    <2>6. /\ job'[j] = r /\ \A k \in JobIds \ {j} : job'[k] = job[k]
          BY <1>0, <2>5
    <2>7. \A k \in JobIds : job'[k].tries = job[k].tries
          BY <2>4, <2>6
    <2>8. \A k \in JobIds : job'[k].tries >= job[k].tries
          BY <1>0, <2>7
    <2>9. commands' = commands
          BY <1>3 DEF Settle
    <2> QED BY <2>1, <2>4, <2>6, <2>8, <2>9
  <1> QED BY <1>1, <1>2, <1>3 DEF Cycle, Crash, Settle, MarkLost, Reconciled, NoJob, Skip, Recover,
               RefuseTask, RunTask, ResumeWorkflow, RefuseResume, Deny, NoExecutor, Match,
               StartAttempt, Exhaust, Launch, Announce, ExecutorFails, AskPermission, Finish,
               Verify, DecisionFails, DecideState, DecideLoop, DecideAsk, Park, jobVars

LEMMA KindsInputs ==
  ASSUME IInv, JobKinds, Inputs
  PROVE  /\ JobKinds'
         /\ \A j \in JobIds : job'[j].tries = job[j].tries
         /\ UNCHANGED <<wf, pc, doing, loc, launchedBy>>
  <1>1. ASSUME NEW j \in JobIds, NEW t \in JobTypes, NEW i \in Nat, Insert(j, t, i),
               t = "task.created" <=> j \in TaskIds, t = "scheduled.task" => Schedules > 0,
               commands' \subseteq commands
        PROVE  JobKinds' /\ \A k \in JobIds : job'[k].tries = job[k].tries
    <2>0. /\ IInv /\ JobKinds /\ Insert(j, t, i) /\ (t = "task.created" <=> j \in TaskIds)
          /\ (t = "scheduled.task" => Schedules > 0)
          BY <1>1
    <2>1. /\ \A k \in JobIds : /\ job'[k].type = "task.created" => k \in TaskIds
                               /\ job'[k].type = "scheduled.task" => Schedules > 0
                               /\ job'[k].status = "ABSENT" => job'[k].tries = 0
                               /\ job'[k].tries = job[k].tries
          /\ \A k \in TaskIds : job'[k].type \in {"none", "task.created"}
          BY <2>0, InsertKinds
    <2> QED BY <1>1, <2>1 DEF JobKinds
  <1>2. ASSUME NEW n \in 1..Tasks, TaskEvent(n)
        PROVE  JobKinds' /\ \A k \in JobIds : job'[k].tries = job[k].tries
    <2>1. <<"task", n>> \in TaskIds /\ <<"task", n>> \in JobIds
          BY JobIdsType DEF TaskIds
    <2> QED BY <1>1, <1>2, <2>1 DEF TaskEvent, JobTypes
  <1>3. ASSUME NEW n \in 1..Schedules, Occurrence(n)
        PROVE  JobKinds' /\ \A k \in JobIds : job'[k].tries = job[k].tries
    <2>1. <<"sched", n>> \in JobIds /\ <<"sched", n>> \notin TaskIds
          BY JobIdsType, IdsApart
    <2>2. Schedules > 0
          BY CountAssumption
    <2> QED BY <1>1, <1>3, <2>1, <2>2 DEF Occurrence, JobTypes
  <1>4. ASSUME NEW j \in JobIds \ TaskIds, Insert(j, "workflow.resume_requested", 0),
               commands' = commands
        PROVE  JobKinds' /\ \A k \in JobIds : job'[k].tries = job[k].tries
        BY <1>1, <1>4 DEF JobTypes, ResumeTypes
  <1>5. ASSUME NEW n \in 1..Triggers, Trigger(n)
        PROVE  JobKinds' /\ \A k \in JobIds : job'[k].tries = job[k].tries
        BY <1>4, <1>5, JobIdsType, IdsApart DEF Trigger
  <1>6. ASSUME NEW j \in {<<"resume", 0>>} \cup OperatorKeys, OperatorResume(j)
        PROVE  JobKinds' /\ \A k \in JobIds : job'[k].tries = job[k].tries
    <2>1. j \in JobIds \ TaskIds
          BY JobIdsType, IdsApart
    <2> QED BY <1>4, <1>6, <2>1 DEF OperatorResume
  <1>7. ASSUME NEW i \in 1..MaxAsked, NEW key \in {<<"att", i>>} \cup OperatorKeys,
               NEW t \in JobTypes, ReadAttention(i, t, key)
        PROVE  JobKinds' /\ \A k \in JobIds : job'[k].tries = job[k].tries
    <2>1. t \in {"human.replied", "approval.granted", "approval.denied"} /\ key \notin TaskIds
          BY <1>7, IdsApart DEF ReadAttention, Answers
    <2>2. commands' = commands \cup {[att |-> i, type |-> t, key |-> key]} /\ job' = job
          BY <1>7 DEF ReadAttention, jobVars
    <2> QED BY <2>1, <2>2 DEF JobKinds
  <1>8. ASSUME NEW c \in commands, Respond(c)
        PROVE  JobKinds' /\ \A k \in JobIds : job'[k].tries = job[k].tries
    <2>1. c.att \in Nat /\ c.type \in JobTypes /\ c.key \in JobIds
      <3>1. c \in Command
            BY DEF IInv, TypeOK
      <3> QED BY <3>1 DEF Command
    <2>2. /\ c.type \in {"human.replied", "approval.granted", "approval.denied"}
          /\ c.key \notin TaskIds
          BY DEF JobKinds
    <2>3. Insert(c.key, c.type, c.att) /\ commands' \subseteq commands
          BY <1>8 DEF Respond
    <2> QED BY <1>1, <2>1, <2>2, <2>3
  <1>9. UNCHANGED <<wf, pc, doing, loc, launchedBy>>
        BY DEF Inputs, TaskEvent, Occurrence, Trigger, OperatorResume, ReadAttention, Respond,
               rowVars, procVars
  <1> QED BY <1>2, <1>3, <1>5, <1>6, <1>7, <1>8, <1>9 DEF Inputs

\* A job in work was claimed; a workflow in work exists, and is parked only in
\* a state it can be found in.
WorkInv ==
  \A w \in Workers :
    /\ pc[w] \notin Free => job[doing[w]].tries >= 1
    /\ pc[w] \in Inside => wf.state # "NONE"
    /\ pc[w] = "parking" => loc[w].park # "NONE"

\* A launch of the task's job: the row tells of it, no other claim launched,
\* and a worker that has the job either made it or has yet to look at the row.
Traced(j, n) ==
  /\ n \in 1..job[j].tries
  /\ wf.tries > 0 /\ wf.state # "NONE"
  /\ \A m : <<j, m>> \in launchedBy => m = n
  /\ \A w \in Workers : doing[w] = j =>
       /\ pc[w] = "claimed" => n < job[j].tries
       /\ pc[w] \in Inside \ {"parking"} => n = job[j].tries

BlindInv == \A j \in TaskIds : \A n : <<j, n>> \in launchedBy => Traced(j, n)

\* What a worker's step other than the start of a run leaves of the row.
LEMMA RowKept ==
  ASSUME IInv, BudgetInv, WorkInv, NEW w \in Workers, Cycle(w) \/ Crash(w), ~RunTask(w)
  PROVE  /\ wf.tries > 0 => wf'.tries > 0
         /\ wf.state # "NONE" => wf'.state # "NONE"
  <1>0. wf \in WorkflowRow /\ wf.tries \in Nat /\ loc[w] \in Locals
    <2>1. wf \in WorkflowRow /\ loc[w] \in Locals
          BY DEF IInv, TypeOK
    <2> QED BY <2>1, BudgetAssumption DEF WorkflowRow
  <1>1. CASE wf' = wf
        BY <1>1
  <1>2. CASE wf' = [wf EXCEPT !.state = "FAILED"]
        BY <1>0, <1>2 DEF WorkflowRow
  <1>3. ASSUME NEW l, NEW s, wf' = Row(l, s), s # "NONE", l.tries >= wf.tries, l.tries \in Nat
        PROVE  /\ wf.tries > 0 => wf'.tries > 0
               /\ wf.state # "NONE" => wf'.state # "NONE"
        BY <1>0, <1>3 DEF Row
  <1>4. CASE StartAttempt(w)
    <2> DEFINE l == [loc[w] EXCEPT !.tries = @ + 1, !.att = Len(attempt) + 1, !.cur = loc[w].sess,
                                   !.res = "none"]
    <2>1. l.tries = loc[w].tries + 1
          BY <1>0 DEF Locals
    <2>2. wf' = Row(l, "RUNNING") /\ loc[w].tries = wf.tries
          BY <1>4 DEF StartAttempt, BudgetInv, Counted, Inside
    <2> HIDE DEF l
    <2> QED BY <1>0, <1>3, <2>1, <2>2
  <1>5. CASE ResumeWorkflow(w)
    <2> DEFINE new == IF Type(w) = "approval.granted" THEN Granted(job[doing[w]].att) ELSE {}
               l == [Restore(wf) EXCEPT !.grants = @ \cup new]
    <2>1. l.tries = wf.tries
      <3>1. new \in SUBSET Auths
            BY DEF Granted
      <3> HIDE DEF new
      <3> QED BY <3>1, ChosenTries
    <2>2. wf' = Row(l, "RUNNING")
          BY <1>5 DEF ResumeWorkflow
    <2> HIDE DEF l
    <2> QED BY <1>0, <1>3, <2>1, <2>2
  <1>6. CASE Verify(w) \/ Park(w)
    <2>1. loc[w].tries = wf.tries /\ (pc[w] = "parking" => loc[w].park # "NONE")
          BY <1>6 DEF Verify, Park, BudgetInv, Counted, Inside, WorkInv
    <2>2. wf' = Row(loc[w], "VERIFYING") \/ (wf' = Row(loc[w], loc[w].park) /\ pc[w] = "parking")
          BY <1>6 DEF Verify, Park
    <2> QED BY <1>0, <1>3, <2>1, <2>2
  <1>7. ASSUME NEW state \in {"COMPLETED", "PAUSED", "VERIFYING", "FAILED"}, DecideState(w, state)
        PROVE  /\ wf.tries > 0 => wf'.tries > 0
               /\ wf.state # "NONE" => wf'.state # "NONE"
    <2>1. Decided(w).tries = wf.tries
          BY <1>7, ChosenTries DEF DecideState, BudgetInv, Counted, Inside
    <2>2. wf' = Row(Decided(w), state)
          BY <1>7 DEF DecideState
    <2> QED BY <1>0, <1>3, <2>1, <2>2
  <1> QED BY <1>1, <1>2, <1>4, <1>5, <1>6, <1>7 DEF Cycle, Crash, Settle, MarkLost, Reconciled, NoJob,
               Claim, Skip, Recover, RefuseTask, RunTask, RefuseResume, Deny, NoExecutor, Match,
               Exhaust, Launch, Announce, ExecutorFails, AskPermission, Finish,
               DecisionFails, DecideLoop, DecideAsk, rowVars

\* How a worker comes to be where a step leaves it.
LEMMA Moves ==
  ASSUME IInv, NEW w \in Workers, Cycle(w) \/ Crash(w)
  PROVE  /\ \/ pc'[w] \in Free
            \/ pc[w] \notin Free /\ UNCHANGED <<job, doing>>
            \/ \E j \in JobIds : Claim(w, j)
         /\ \/ pc'[w] \notin Inside
            \/ RunTask(w) \/ ResumeWorkflow(w) \/ Recover(w)
            \/ pc[w] \in Inside /\ ~RunTask(w)
  <1>0. pc \in [Workers -> Pcs]
        BY DEF IInv, TypeOK
  <1>1. \/ pc'[w] \in Free
        \/ pc[w] \notin Free /\ UNCHANGED <<job, doing>>
        \/ \E j \in JobIds : Claim(w, j)
        BY <1>0 DEF Cycle, Crash, Settle, MarkLost, Reconciled, NoJob, Skip, Recover,
           RefuseTask, RunTask, ResumeWorkflow, RefuseResume, Deny, NoExecutor, Match,
           StartAttempt, Exhaust, Launch, Announce, ExecutorFails, AskPermission, Finish, Verify,
           DecisionFails, DecideState, DecideLoop, DecideAsk, RaiseAndPark, Park, Goto, Free, jobVars
  <1>2. \/ pc'[w] \notin Inside
        \/ RunTask(w) \/ ResumeWorkflow(w) \/ Recover(w)
        \/ pc[w] \in Inside /\ ~RunTask(w)
        BY <1>0 DEF Cycle, Crash, Settle, MarkLost, Reconciled, NoJob, Claim, Skip, Recover,
           RefuseTask, RunTask, ResumeWorkflow, RefuseResume, Deny, NoExecutor, Match,
           StartAttempt, Exhaust, Launch, Announce, ExecutorFails, AskPermission, Finish, Verify,
           DecisionFails, DecideState, DecideLoop, DecideAsk, RaiseAndPark, Park, Goto, Inside
  <1> QED BY <1>1, <1>2

LEMMA WorkCycle ==
  ASSUME IInv, BudgetInv, WorkInv, NEW w \in Workers, Cycle(w) \/ Crash(w), OneWorker
  PROVE  WorkInv'
  <1>0. /\ pc \in [Workers -> Pcs] /\ loc \in [Workers -> Locals] /\ loc[w] \in Locals
        /\ job \in [JobIds -> JobRow] /\ doing \in [Workers -> JobIds \cup {None}]
        /\ \A j \in JobIds : job[j].tries \in Nat /\ job'[j].tries \in Nat
                              /\ job'[j].tries >= job[j].tries
    <2>1. job \in [JobIds -> JobRow] /\ job' \in [JobIds -> JobRow]
          BY StepTypes DEF IInv, TypeOK, Next
    <2> QED BY <2>1, JobSteps DEF IInv, TypeOK, JobRow
  <1>1. pc'[w] \notin Free => job'[doing'[w]].tries >= 1
    <2>1. ASSUME NEW j \in JobIds, Claim(w, j) PROVE job'[doing'[w]].tries >= 1
      <3>1. job'[j].tries = job[j].tries + 1 /\ doing'[w] = j
        <4>1. job[j] \in JobRow
              BY <1>0
        <4> DEFINE r == [job[j] EXCEPT !.status = "RUNNING", !.holder = w, !.tries = @ + 1]
        <4>2. r.tries = job[j].tries + 1
              BY <4>1 DEF JobRow
        <4>3. job' = [job EXCEPT ![j] = r] /\ doing' = [doing EXCEPT ![w] = j]
              BY <1>0, <2>1 DEF Claim
        <4> HIDE DEF r
        <4> QED BY <1>0, <4>2, <4>3
      <3> QED BY <1>0, <3>1
    <2>2. CASE pc'[w] \in Free
          BY <2>2
    <2>3. CASE pc[w] \notin Free /\ doing' = doing
      <3>1. PICK j \in JobIds : j = doing[w]
            BY <2>3 DEF IInv, BusyInv
      <3>2. job[j].tries >= 1
            BY <2>3, <3>1 DEF WorkInv
      <3>3. job'[j].tries >= 1
            BY <1>0, <3>2
      <3> QED BY <2>3, <3>1, <3>3
    <2> QED BY <2>1, <2>2, <2>3, Moves
  <1>2. pc'[w] \in Inside => wf'.state # "NONE"
    <2>1. CASE RunTask(w) \/ ResumeWorkflow(w)
          BY <2>1 DEF RunTask, ResumeWorkflow, Row
    <2>2. CASE Recover(w)
          BY <2>2 DEF Recover, NeedsRecovery, Recovered
    <2>3. CASE pc[w] \in Inside /\ ~RunTask(w)
          BY <2>3, RowKept DEF WorkInv
    <2> QED BY <2>1, <2>2, <2>3, Moves
  <1>3. pc'[w] = "parking" => loc'[w].park # "NONE"
    <2>1. CASE Recover(w)
      <3>1. Restore(wf) \in Locals
            BY RestoreType DEF IInv, TypeOK
      <3> QED BY <1>0, <2>1, <3>1 DEF Recover, Locals
    <2>2. ASSUME NEW kind, NEW auth, NEW l \in Locals, NEW state, state # "NONE",
                 RaiseAndPark(w, kind, auth, l, state)
          PROVE  loc'[w].park # "NONE"
          BY <1>0, <2>2 DEF RaiseAndPark, Locals
    <2>3. [Decided(w) EXCEPT !.sess = loc[w].cur] \in Locals \/ pc[w] # "deciding"
      <3>1. pc[w] = "deciding" => Decided(w) \in Locals
            BY DecidedType
      <3> QED BY <1>0, <3>1 DEF Locals
    <2>4. CASE \/ NoExecutor(w) \/ Exhaust(w) \/ ExecutorFails(w)
               \/ \E auth \in Auths \cup {None} : AskPermission(w, auth)
      <3>1. PICK state \in {"FAILED", "WAITING_FOR_CAPABILITY", "WAITING_FOR_HUMAN",
                            "WAITING_FOR_APPROVAL"} :
              loc' = [loc EXCEPT ![w] = [loc[w] EXCEPT !.park = state]]
            BY <2>4 DEF NoExecutor, Exhaust, ExecutorFails, AskPermission, RaiseAndPark
      <3> QED BY <1>0, <3>1 DEF Locals
    <2>5. CASE \/ DecideAsk(w, "DECISION", "WAITING_FOR_HUMAN")
               \/ DecideAsk(w, "APPROVAL", "WAITING_FOR_APPROVAL")
          BY <2>2, <2>3, <2>5 DEF DecideAsk
    <2> QED BY <1>0, <2>1, <2>4, <2>5 DEF Cycle, Crash, Settle, MarkLost, Reconciled, NoJob, Claim,
               Skip, RefuseTask, RunTask, ResumeWorkflow, RefuseResume, Deny, Match,
               StartAttempt, Launch, Announce, Finish, Verify,
               DecisionFails, DecideState, DecideLoop, Park, Goto
  <1> QED BY <1>1, <1>2, <1>3 DEF WorkInv, OneWorker

LEMMA OneTask == OnlyOneTask => \A j, k \in TaskIds : j = k
  BY CountAssumption DEF OnlyOneTask, TaskIds

\* A step that launches nothing, after which the worker is past looking at the
\* row, or has another job, or is still inside with the job it launched for.
LEMMA BlindKept ==
  ASSUME OneWorker, IInv, BlindInv, NEW w \in Workers, launchedBy' = launchedBy,
         \A j \in JobIds : job'[j].tries \in Nat /\ job[j].tries \in Nat
                            /\ job'[j].tries >= job[j].tries,
         wf.tries > 0 => wf'.tries > 0, wf.state # "NONE" => wf'.state # "NONE",
         \/ pc'[w] \notin {"claimed"} \cup (Inside \ {"parking"}) \/ doing'[w] \notin TaskIds
         \/ /\ pc[w] \in Inside \ {"parking"} /\ pc'[w] # "claimed"
            /\ doing'[w] = doing[w] /\ job' = job
  PROVE  BlindInv'
  <1> SUFFICES ASSUME NEW j \in TaskIds, NEW n, <<j, n>> \in launchedBy PROVE Traced(j, n)'
      BY DEF BlindInv
  <1>0. Traced(j, n) /\ j \in JobIds
        BY IdsApart DEF BlindInv
  <1>1. n \in 1..job'[j].tries
        BY <1>0 DEF Traced
  <1>2. doing'[w] = j => /\ pc'[w] = "claimed" => n < job'[j].tries
                         /\ pc'[w] \in Inside \ {"parking"} => n = job'[j].tries
        BY <1>0 DEF Traced, Inside
  <1> QED BY <1>0, <1>1, <1>2 DEF Traced, OneWorker

LEMMA BlindCycle ==
  ASSUME OnlyOneTask, IInv, BudgetInv, JobKinds, WorkInv, BlindInv,
         NEW w \in Workers, Cycle(w) \/ Crash(w)
  PROVE  BlindInv'
  <1>0. /\ OneWorker /\ pc \in [Workers -> Pcs] /\ loc \in [Workers -> Locals]
        /\ job \in [JobIds -> JobRow] /\ doing \in [Workers -> JobIds \cup {None}]
        /\ \A j \in JobIds : job[j].tries \in Nat /\ job'[j].tries \in Nat
                              /\ job'[j].tries >= job[j].tries
    <2>1. job \in [JobIds -> JobRow] /\ job' \in [JobIds -> JobRow]
          BY StepTypes DEF IInv, TypeOK, Next
    <2> QED BY <2>1, JobSteps DEF OnlyOneTask, IInv, TypeOK, JobRow
  <1>a. ~RunTask(w) => /\ wf.tries > 0 => wf'.tries > 0
                       /\ wf.state # "NONE" => wf'.state # "NONE"
        BY RowKept
  <1>1. ASSUME NEW j \in JobIds, Claim(w, j) PROVE BlindInv'
    <2> DEFINE r == [job[j] EXCEPT !.status = "RUNNING", !.holder = w, !.tries = @ + 1]
    <2>1. r.tries = job[j].tries + 1
          BY <1>0 DEF JobRow
    <2>2. /\ job' = [job EXCEPT ![j] = r] /\ doing'[w] = j /\ pc'[w] = "claimed"
          /\ wf' = wf /\ launchedBy' = launchedBy
          BY <1>0, <1>1 DEF Claim, Goto, rowVars, procVars
    <2> HIDE DEF r
    <2> SUFFICES ASSUME NEW k \in TaskIds, NEW n, <<k, n>> \in launchedBy PROVE Traced(k, n)'
        BY <2>2 DEF BlindInv
    <2>3. Traced(k, n) /\ k \in JobIds
          BY IdsApart DEF BlindInv
    <2>4. n \in 1..job'[k].tries /\ (k = j => n < job'[k].tries)
          BY <1>0, <2>1, <2>2, <2>3 DEF Traced
    <2> QED BY <1>0, <2>2, <2>3, <2>4 DEF Traced, OneWorker, Inside
  <1>2. CASE RunTask(w)
    <2>1. PICK j \in JobIds : j = doing[w]
          BY <1>2 DEF RunTask, IInv, BusyInv, Free
    <2>2. j \in TaskIds /\ job[j].type = "task.created"
          BY <1>2, <2>1, CountAssumption DEF RunTask, Type, JobKinds, OnlyOneTask
    <2>3. \A n : <<j, n>> \notin launchedBy
      <3> SUFFICES ASSUME NEW n, <<j, n>> \in launchedBy PROVE FALSE
          OBVIOUS
      <3>1. Traced(j, n)
            BY <2>2 DEF BlindInv
      <3>2. n \in 1..job[j].tries /\ n < job[j].tries /\ wf.tries > 0 /\ wf.state # "NONE"
            BY <1>2, <2>1, <3>1 DEF Traced, RunTask
      <3>3. job[j].tries > 1
            BY <1>0, <3>2
      <3> QED BY <1>2, <2>1, <2>2, <3>2, <3>3 DEF RunTask, NeedsRecovery, Recovered, Uncertain, Type
    <2>4. \A k \in TaskIds : \A n : <<k, n>> \notin launchedBy
          BY <2>2, <2>3, OneTask
    <2>5. launchedBy' = launchedBy
          BY <1>2 DEF RunTask
    <2> QED BY <2>4, <2>5 DEF BlindInv
  <1>3. CASE Launch(w)
    <2>1. PICK j \in JobIds : j = doing[w]
          BY <1>3 DEF Launch, IInv, BusyInv, Free
    <2>2. job[j].tries >= 1 /\ wf.state # "NONE"
          BY <1>3, <2>1 DEF Launch, WorkInv, Free, Inside
    <2>3. wf.tries > 0
      <3>1. wf \in WorkflowRow /\ launches \in Nat
            BY DEF IInv, TypeOK
      <3> QED BY <1>3, <3>1, BudgetAssumption DEF Launch, BudgetInv, Counted, WorkflowRow
    <2>4. /\ launchedBy' = launchedBy \cup {<<j, job[j].tries>>} /\ pc[w] = "launching"
          /\ pc'[w] = "executing" /\ UNCHANGED <<job, doing, wf>>
          BY <1>0, <1>3, <2>1 DEF Launch, Goto, jobVars
    <2> SUFFICES ASSUME NEW k \in TaskIds, NEW n, <<k, n>> \in launchedBy' PROVE Traced(k, n)'
        BY DEF BlindInv
    <2>5. \A m : <<j, m>> \in launchedBy /\ j \in TaskIds => m = job[j].tries
          BY <2>1, <2>4 DEF BlindInv, Traced, Inside
    <2>6. \A m : <<k, m>> \in launchedBy' => m = n
          BY <2>4, <2>5 DEF BlindInv, Traced
    <2>7. n \in 1..job[k].tries /\ (k = j => n = job[k].tries)
          BY <1>0, <2>2, <2>4, <2>5 DEF BlindInv, Traced
    <2> QED BY <2>1, <2>2, <2>3, <2>4, <2>6, <2>7, <1>0 DEF Traced, OneWorker
  <1>4. CASE ResumeWorkflow(w)
    <2>1. PICK j \in JobIds : j = doing[w]
          BY <1>4 DEF ResumeWorkflow, IInv, BusyInv, Free
    <2>2. j \notin TaskIds
          BY <1>4, <2>1 DEF ResumeWorkflow, Type, ResumeTypes, JobKinds
    <2>3. doing'[w] \notin TaskIds /\ launchedBy' = launchedBy
          BY <1>4, <2>1, <2>2 DEF ResumeWorkflow, procVars
    <2>4. ~RunTask(w)
          BY <1>4 DEF RunTask, ResumeWorkflow, ResumeTypes
    <2> QED BY <1>0, <1>a, <2>3, <2>4, BlindKept
  <1>5. ASSUME ~RunTask(w), ~Launch(w), ~ResumeWorkflow(w), \A j \in JobIds : ~Claim(w, j)
        PROVE  BlindInv'
    <2>1. /\ launchedBy' = launchedBy
          /\ \/ pc'[w] \notin {"claimed"} \cup (Inside \ {"parking"})
             \/ /\ pc[w] \in Inside \ {"parking"} /\ pc'[w] # "claimed"
                /\ doing'[w] = doing[w] /\ job' = job
          BY <1>0, <1>5 DEF Cycle, Crash, Settle, MarkLost, Reconciled, NoJob, Skip, Recover,
             RefuseTask, RefuseResume, Deny, NoExecutor, Match, StartAttempt, Exhaust, Announce,
             ExecutorFails, AskPermission, Finish, Verify, DecisionFails, DecideState, DecideLoop,
             DecideAsk, RaiseAndPark, Park, Goto, jobVars, procVars, Inside
    <2> QED BY <1>0, <1>5, <1>a, <2>1, BlindKept
  <1> QED BY <1>1, <1>2, <1>3, <1>4, <1>5

OneTaskInv == BudgetInv /\ JobKinds /\ WorkInv /\ BlindInv

LEMMA OneTaskInit == Init => OneTaskInv
  <1> SUFFICES ASSUME Init PROVE OneTaskInv
      OBVIOUS
  <1>1. launchedBy = {} /\ \A w \in Workers : pc[w] = "idle"
        BY DEF Init
  <1> QED BY <1>1, BudgetInit, KindsInit DEF OneTaskInv, WorkInv, BlindInv, Inside, Free

LEMMA OneTaskNext == OnlyOneTask /\ IInv /\ OneTaskInv /\ [Next]_vars => OneTaskInv'
  <1> SUFFICES ASSUME OnlyOneTask, IInv, OneTaskInv, [Next]_vars PROVE OneTaskInv'
      OBVIOUS
  <1>0. OneWorker /\ BudgetInv /\ JobKinds /\ WorkInv /\ BlindInv
        BY DEF OnlyOneTask, OneTaskInv
  <1>1. BudgetInv'
        BY <1>0, BudgetNext
  <1>2. ASSUME NEW w \in Workers, Cycle(w) \/ Crash(w) PROVE JobKinds' /\ WorkInv' /\ BlindInv'
    <2>1. job \in [JobIds -> JobRow]
          BY DEF IInv, TypeOK
    <2>2. JobKinds'
          BY <1>0, <1>2, JobSteps, KindsKept
    <2>3. WorkInv' /\ BlindInv'
          BY <1>0, <1>2, WorkCycle, BlindCycle
    <2> QED BY <2>2, <2>3
  <1>3. ASSUME JobKinds', UNCHANGED <<wf, pc, doing, loc, launchedBy>>,
               \A j \in JobIds : job'[j].tries = job[j].tries
        PROVE  JobKinds' /\ WorkInv' /\ BlindInv'
    <2>1. WorkInv'
          BY <1>0, <1>3 DEF WorkInv, IInv, BusyInv
    <2>2. \A j \in TaskIds : \A n : Traced(j, n) => Traced(j, n)'
          BY <1>3, IdsApart DEF Traced
    <2> QED BY <1>0, <1>3, <2>1, <2>2 DEF BlindInv
  <1>4. ASSUME Inputs PROVE JobKinds' /\ WorkInv' /\ BlindInv'
        BY <1>0, <1>3, <1>4, KindsInputs
  <1>5. ASSUME UNCHANGED <<job, commands, wf, pc, doing, loc, launchedBy>>
        PROVE  JobKinds' /\ WorkInv' /\ BlindInv'
    <2>1. JobKinds'
          BY <1>0, <1>5 DEF JobKinds
    <2> QED BY <1>3, <1>5, <2>1
  <1>6. JobKinds' /\ WorkInv' /\ BlindInv'
        BY <1>2, <1>4, <1>5 DEF Next, OrphanExits, LapseDead, LapseLive, vars, jobVars, rowVars, procVars
  <1> QED BY <1>1, <1>6 DEF OneTaskInv

(* A task job that launched an executor before its worker crashed launches   *)
(* none when it is claimed again: with one worker and one task.              *)
THEOREM NoRedispatchByOne == Spec => [](OnlyOneTask => NoBlindRedispatch)
  <1>1. Init => IInv /\ (OnlyOneTask => OneTaskInv)
        BY InitTypes, OneTaskInit
  <1>2. IInv /\ (OnlyOneTask => OneTaskInv) /\ [Next]_vars => IInv' /\ (OnlyOneTask => OneTaskInv)'
        BY StepTypes, OneTaskNext DEF OnlyOneTask, OneWorker
  <1>3. IInv /\ (OnlyOneTask => OneTaskInv) => (OnlyOneTask => NoBlindRedispatch)
    <2> SUFFICES ASSUME OneTaskInv, NEW j \in TaskIds PROVE Cardinality(Launched(j)) <= 1
        BY DEF NoBlindRedispatch, TaskIds
    <2>1. \A m, n \in Launched(j) : m = n
          BY DEF Launched, OneTaskInv, BlindInv, Traced
    <2>2. CASE Launched(j) = {}
          BY <2>2, FS_EmptySet
    <2>3. CASE Launched(j) # {}
      <3>1. PICK n : Launched(j) = {n}
            BY <2>1, <2>3
      <3>2. Cardinality({n}) = 1
            BY FS_Singleton
      <3> QED BY <3>1, <3>2
    <2> QED BY <2>2, <2>3
  <1> QED BY <1>1, <1>2, <1>3, PTL DEF Spec

-----------------------------------------------------------------------------
(* A question the workflow waits on. Its answer closes it and becomes its    *)
(* job in one transaction, and the job cannot end before the workflow moved: *)
(* the worker that has it finds a state that accepts the answer.             *)

\* Operators leave --idempotency-key alone: a key that was used before closes
\* the Attention without a job.
DefaultKeys == OneWorker /\ Keys = 0

Waiting == {"WAITING_FOR_HUMAN", "WAITING_FOR_APPROVAL"}

\* An Attention is answered exactly when its job exists, and the job carries
\* the answer.
AskedInv ==
  /\ \A c \in commands : c.key = <<"att", c.att>> /\ c.type \in Answers(att[c.att].kind)
  /\ \A i \in 1..MaxAsked : job[<<"att", i>>].status # "ABSENT" =>
       /\ i \in 1..Len(att) /\ ~att[i].open
       /\ job[<<"att", i>>].att = i /\ job[<<"att", i>>].type = att[i].answer
  /\ \A i \in 1..Len(att) : ~att[i].open =>
       /\ att[i].answer \in Answers(att[i].kind)
       /\ i <= MaxAsked => job[<<"att", i>>].status # "ABSENT"

Fits(i, state) ==
  /\ att[i].kind = "DECISION" => state = "WAITING_FOR_HUMAN"
  /\ att[i].kind = "APPROVAL" => state = "WAITING_FOR_APPROVAL"

\* A workflow about to be parked on a question is parked on the newest.
Parks(w) ==
  pc[w] = "parking" /\ loc[w].park \in Waiting =>
    /\ Len(att) >= 1 /\ Askable(Len(att)) /\ Fits(Len(att), loc[w].park)
    /\ Len(att) <= MaxAsked => job[<<"att", Len(att)>>].status \in {"ABSENT", "PENDING"}

Waits(i) ==
  WaitsOn(i) /\ Answerable(i) /\ i <= MaxAsked =>
    /\ Fits(i, wf.state)
    /\ job[<<"att", i>>].status \notin Terminal
    /\ \A w \in Workers : pc[w] \in {"done", "failing"} => doing[w] # <<"att", i>>

WaitInv ==
  /\ \A w \in Workers : /\ pc[w] \notin Free => job[doing[w]].status = "RUNNING"
                        /\ pc[w] \in Inside => wf.state \notin Waiting
                        /\ Parks(w)
  /\ \A i \in 1..Len(att) : Waits(i)

LEMMA AskedInit == Init => AskedInv /\ WaitInv
  <1> SUFFICES ASSUME Init PROVE AskedInv /\ WaitInv
      OBVIOUS
  <1>1. Len(att) = 0 /\ commands = {} /\ \A w \in Workers : pc[w] = "idle"
        BY DEF Init
  <1>2. \A i \in 1..MaxAsked : job[<<"att", i>>].status = "ABSENT"
        BY JobIdsType DEF Init
  <1> QED BY <1>1, <1>2 DEF AskedInv, WaitInv, Parks, Free, Inside

\* The worker raises Attentions and claims and settles jobs.
LEMMA AskedKept ==
  ASSUME IInv, AskedInv, commands' = commands,
         att' = att \/ \E n \in AttentionRow : n.open /\ att' = Append(att, n),
         \A j \in JobIds : /\ job'[j].type = job[j].type /\ job'[j].att = job[j].att
                           /\ "ABSENT" \in {job[j].status, job'[j].status} => job'[j] = job[j]
  PROVE  AskedInv'
  <1>0. att \in Seq(AttentionRow) /\ Len(att) \in Nat
        BY DEF IInv, TypeOK
  <1>1. /\ Len(att') \in Nat /\ Len(att') >= Len(att)
        /\ \A i \in 1..Len(att) : att'[i] = att[i]
        /\ \A i \in 1..Len(att') : i \in 1..Len(att) \/ att'[i].open
    <2>1. CASE att' = att
          BY <1>0, <2>1
    <2>2. ASSUME NEW n \in AttentionRow, n.open, att' = Append(att, n)
          PROVE  /\ Len(att') \in Nat /\ Len(att') >= Len(att)
                 /\ \A i \in 1..Len(att) : att'[i] = att[i]
                 /\ \A i \in 1..Len(att') : i \in 1..Len(att) \/ att'[i].open
      <3>1. /\ Len(att') = Len(att) + 1 /\ att'[Len(att) + 1] = n
            /\ \A i \in 1..Len(att) : att'[i] = att[i]
            BY <1>0, <2>2, AppendNotice
      <3>2. \A i \in 1..Len(att') : i \in 1..Len(att) \/ i = Len(att) + 1
            BY <1>0, <3>1
      <3> QED BY <1>0, <2>2, <3>1, <3>2
    <2> QED BY <2>1, <2>2
  <1>2. \A c \in commands : c.att \in 1..Len(att)
        BY DEF IInv, CommandInv
  <1>3. \A i \in 1..Len(att) : i \in 1..Len(att')
        BY <1>0, <1>1
  <1>4. \A i \in 1..MaxAsked : /\ job'[<<"att", i>>].type = job[<<"att", i>>].type
                               /\ job'[<<"att", i>>].att = job[<<"att", i>>].att
                               /\ job[<<"att", i>>].status = "ABSENT"
                                    <=> job'[<<"att", i>>].status = "ABSENT"
        BY JobIdsType
  <1>5. \A i \in 1..Len(att) : i <= MaxAsked => i \in 1..MaxAsked
        BY <1>0, CountAssumption
  <1> QED BY <1>1, <1>2, <1>3, <1>4, <1>5 DEF AskedInv

\* What events and operators do: they enqueue absent jobs, and answer.
LEMMA AskedInputs ==
  ASSUME IInv, AskedInv, Keys = 0, Inputs
  PROVE  /\ AskedInv' /\ Len(att') = Len(att)
         /\ \A i \in 1..Len(att) : att'[i].kind = att[i].kind /\ att'[i].auth = att[i].auth
         /\ \A j \in JobIds : \/ job'[j] = job[j]
                              \/ job[j].status = "ABSENT" /\ job'[j].status = "PENDING"
         /\ UNCHANGED <<wf, pc, doing, loc>>
  <1> DEFINE Quiet ==
        /\ Len(att') = Len(att)
        /\ \A i \in 1..Len(att) : att'[i].kind = att[i].kind /\ att'[i].auth = att[i].auth
        /\ \A j \in JobIds : \/ job'[j] = job[j]
                             \/ job[j].status = "ABSENT" /\ job'[j].status = "PENDING"
  <1>0. /\ OperatorKeys = {} /\ job \in [JobIds -> JobRow]
        /\ att \in Seq(AttentionRow) /\ Len(att) \in Nat
        BY DEF OperatorKeys, IInv, TypeOK
  <1>a. \A i \in 1..MaxAsked : <<"att", i>> \in JobIds
        BY JobIdsType
  <1>b. \A n : <<"att", n>> \in JobIds => n \in 1..MaxAsked
        BY DEF JobIds
  <1>c. \A i \in 1..Len(att) : i <= MaxAsked => i \in 1..MaxAsked
        BY <1>0, CountAssumption
  <1>1. ASSUME NEW j \in JobIds, NEW t \in JobTypes, Insert(j, t, 0),
               \A i \in 1..MaxAsked : j # <<"att", i>>, UNCHANGED <<att, commands>>
        PROVE  AskedInv' /\ Quiet
    <2>1. /\ \A k \in JobIds \ {j} : job'[k] = job[k]
          /\ \/ job'[j] = job[j]
             \/ job[j].status = "ABSENT" /\ job'[j].status = "PENDING"
      <3>1. /\ \A k \in JobIds \ {j} : job'[k] = job[k]
            /\ \/ job' = job
               \/ /\ job[j].status = "ABSENT"
                  /\ job'[j] = [type |-> t, status |-> "PENDING", tries |-> 0, att |-> 0,
                                holder |-> None]
            BY <1>0, <1>1, InsertType
      <3> QED BY <3>1
    <2>2. \A i \in 1..MaxAsked : job'[<<"att", i>>] = job[<<"att", i>>]
          BY <1>1, <1>a, <2>1
    <2>3. AskedInv'
          BY <1>1, <1>c, <2>2 DEF AskedInv
    <2> QED BY <1>1, <2>1, <2>3
  <1>2. ASSUME \/ \E n \in 1..Tasks : TaskEvent(n)
               \/ \E n \in 1..Schedules : Occurrence(n)
               \/ \E n \in 1..Triggers : Trigger(n)
               \/ \E j \in {<<"resume", 0>>} : OperatorResume(j)
        PROVE  AskedInv' /\ Quiet
    <2>1. PICK j \in JobIds, t \in {"task.created", "scheduled.task", "workflow.resume_requested"} :
            Insert(j, t, 0) /\ \A i \in 1..MaxAsked : j # <<"att", i>>
          BY <1>2, JobIdsType DEF TaskEvent, Occurrence, Trigger, OperatorResume
    <2>2. UNCHANGED <<att, commands>> /\ t \in JobTypes
          BY <1>2 DEF TaskEvent, Occurrence, Trigger, OperatorResume, rowVars, JobTypes, ResumeTypes
    <2> QED BY <1>1, <2>1, <2>2
  <1>3. ASSUME NEW i \in 1..MaxAsked, NEW t, ReadAttention(i, t, <<"att", i>>)
        PROVE  AskedInv' /\ Quiet
    <2>1. /\ commands' = commands \cup {[att |-> i, type |-> t, key |-> <<"att", i>>]}
          /\ t \in Answers(att[i].kind) /\ job' = job /\ att' = att
          BY <1>3 DEF ReadAttention, jobVars, rowVars
    <2> QED BY <2>1 DEF AskedInv
  <1>4. ASSUME NEW c \in commands, Respond(c) PROVE AskedInv' /\ Quiet
    <2> DEFINE i == c.att
               k == <<"att", i>>
    <2>1. /\ i \in 1..Len(att) /\ i \in 1..MaxAsked /\ k \in JobIds /\ c.type \in JobTypes
          /\ c.type \in Answers(att[i].kind) /\ c.key = k
      <3>1. c \in Command /\ i \in 1..Len(att)
            BY DEF IInv, TypeOK, CommandInv
      <3>2. c.key = k /\ c.type \in Answers(att[i].kind)
            BY DEF AskedInv
      <3>3. k \in JobIds /\ c.type \in JobTypes
            BY <3>1, <3>2 DEF Command
      <3> QED BY <1>b, <3>1, <3>2, <3>3
    <2>2. /\ Insert(k, c.type, i) /\ commands' = commands \ {c}
          /\ att' = IF att[i].open
                    THEN [att EXCEPT ![i].open = FALSE, ![i].answer = c.type] ELSE att
          BY <1>4, <2>1 DEF Respond
    <2> HIDE DEF i, k
    <2>3. /\ Len(att') = Len(att) /\ \A m \in 1..Len(att) \ {i} : att'[m] = att[m]
          /\ ~att'[i].open /\ att'[i].kind = att[i].kind /\ att'[i].auth = att[i].auth
          /\ att[i].open => att'[i].answer = c.type
          /\ ~att[i].open => att'[i] = att[i]
      <3> DEFINE n == [att[i] EXCEPT !.open = FALSE, !.answer = c.type]
      <3>1. att[i] \in AttentionRow
            BY <1>0, <2>1
      <3>2. n.open = FALSE /\ n.answer = c.type /\ n.kind = att[i].kind /\ n.auth = att[i].auth
            BY <3>1 DEF AttentionRow
      <3>3. CASE att[i].open
        <4>1. att' = [att EXCEPT ![i] = n]
              BY <1>0, <2>1, <2>2, <3>3
        <4> HIDE DEF n
        <4> QED BY <1>0, <2>1, <3>2, <3>3, <4>1
      <3>4. CASE ~att[i].open
            BY <2>2, <3>4
      <3> QED BY <3>3, <3>4
    <2>4. /\ \A j \in JobIds \ {k} : job'[j] = job[j]
          /\ \/ job' = job /\ job[k].status # "ABSENT"
             \/ /\ job[k].status = "ABSENT"
                /\ job'[k] = [type |-> c.type, status |-> "PENDING", tries |-> 0, att |-> i,
                              holder |-> None]
      <3>1. i \in Nat
            BY <1>0, <2>1
      <3>2. \A j \in JobIds \ {k} : job'[j] = job[j]
            BY <1>0, <2>1, <2>2, <3>1, InsertType
      <3> QED BY <1>0, <2>1, <2>2, <3>2 DEF Insert
    <2>5. att[i].open <=> job[k].status = "ABSENT"
          BY <1>0, <2>1, CountAssumption DEF AskedInv, k
    <2>6. /\ job'[k].status # "ABSENT" /\ job'[k].att = i /\ job'[k].type = att'[i].answer
          /\ att'[i].answer \in Answers(att'[i].kind)
      <3>1. CASE att[i].open
            BY <2>1, <2>3, <2>4, <2>5, <3>1
      <3>2. CASE ~att[i].open
            BY <2>1, <2>3, <2>4, <2>5, <3>2 DEF AskedInv, k
      <3> QED BY <3>1, <3>2
    <2>7. \A m \in 1..MaxAsked : m # i => job'[<<"att", m>>] = job[<<"att", m>>]
          BY <1>a, <2>4 DEF k
    <2>8. \A m \in 1..Len(att) : att'[m].kind = att[m].kind /\ att'[m].auth = att[m].auth
          BY <2>3
    <2>9. /\ \A d \in commands' : d.key = <<"att", d.att>> /\ d.type \in Answers(att'[d.att].kind)
          BY <2>2, <2>8 DEF AskedInv, IInv, CommandInv
    <2>10. \A m \in 1..MaxAsked : job'[<<"att", m>>].status # "ABSENT" =>
             /\ m \in 1..Len(att) /\ ~att'[m].open
             /\ job'[<<"att", m>>].att = m /\ job'[<<"att", m>>].type = att'[m].answer
           BY <2>1, <2>3, <2>6, <2>7 DEF AskedInv, k
    <2>11. \A m \in 1..Len(att) : ~att'[m].open =>
             /\ att'[m].answer \in Answers(att'[m].kind)
             /\ m <= MaxAsked => job'[<<"att", m>>].status # "ABSENT"
           BY <1>c, <2>3, <2>6, <2>7 DEF AskedInv, k
    <2>12. AskedInv'
           BY <2>3, <2>9, <2>10, <2>11 DEF AskedInv
    <2>13. \A j \in JobIds : \/ job'[j] = job[j]
                             \/ job[j].status = "ABSENT" /\ job'[j].status = "PENDING"
           BY <2>4
    <2> QED BY <2>3, <2>8, <2>12, <2>13
  <1>5. UNCHANGED <<wf, pc, doing, loc>>
        BY DEF Inputs, TaskEvent, Occurrence, Trigger, OperatorResume, ReadAttention, Respond, rowVars
  <1> HIDE DEF Quiet
  <1>6. AskedInv' /\ Quiet
        BY <1>0, <1>2, <1>3, <1>4 DEF Inputs
  <1> QED BY <1>5, <1>6 DEF Quiet

\* What a worker adds to the Attentions is open.
LEMMA AttSteps ==
  ASSUME IInv, NEW w \in Workers, Cycle(w) \/ Crash(w)
  PROVE  att' = att \/ \E n \in AttentionRow : n.open /\ att' = Append(att, n)
  <1>1. ASSUME NEW kind \in {"DECISION", "APPROVAL", "SECURITY", "RECOVERY", "FAILURE", "CAPABILITY"},
               NEW auth \in Auths \cup {None}, NEW j \in JobIds \cup {None},
               att' = Append(att, Notice(kind, auth, j))
        PROVE  \E n \in AttentionRow : n.open /\ att' = Append(att, n)
    <2>1. Notice(kind, auth, j) \in AttentionRow /\ Notice(kind, auth, j).open
          BY NoticeType DEF Notice
    <2> QED BY <1>1, <2>1
  <1>2. CASE Recover(w)
    <2>1. doing[w] \in JobIds
          BY <1>2 DEF Recover, IInv, BusyInv, Free
    <2> QED BY <1>1, <1>2, <2>1 DEF Recover
  <1>3. ASSUME NEW s \in DOMAIN session, MarkLost(w, s)
        PROVE  att' = att \/ \E n \in AttentionRow : n.open /\ att' = Append(att, n)
        BY <1>1, <1>3 DEF MarkLost, Raise
  <1>4. CASE NoExecutor(w) \/ Exhaust(w) \/ ExecutorFails(w)
        BY <1>1, <1>4 DEF NoExecutor, Exhaust, ExecutorFails, RaiseAndPark, Raise
  <1>5. ASSUME NEW auth \in Auths \cup {None}, AskPermission(w, auth)
        PROVE  \E n \in AttentionRow : n.open /\ att' = Append(att, n)
        BY <1>1, <1>5 DEF AskPermission, RaiseAndPark, Raise
  <1>6. ASSUME NEW kind \in {"DECISION", "APPROVAL"}, NEW state, DecideAsk(w, kind, state)
        PROVE  \E n \in AttentionRow : n.open /\ att' = Append(att, n)
        BY <1>1, <1>6 DEF DecideAsk, RaiseAndPark, Raise
  <1>7. CASE att' = att
        BY <1>7
  <1> QED BY <1>2, <1>3, <1>4, <1>5, <1>6, <1>7 DEF Cycle, Crash, Settle, Reconciled, NoJob, Claim,
             Skip, RefuseTask, RunTask, ResumeWorkflow, RefuseResume, Deny, Match, StartAttempt,
             Launch, Announce, Finish, Verify, DecisionFails, DecideState, DecideLoop, Park, rowVars

LEMMA AskedCycle ==
  ASSUME IInv, AskedInv, NEW w \in Workers, Cycle(w) \/ Crash(w)
  PROVE  AskedInv'
  BY AttSteps, JobSteps, AskedKept

\* A worker inside #execute leaves the workflow in no waiting state before it
\* parks it.
LEMMA InsideCycle ==
  ASSUME IInv, WaitInv, NEW w \in Workers, Cycle(w) \/ Crash(w), pc'[w] \in Inside
  PROVE  wf'.state \notin Waiting
  <1>1. CASE RunTask(w) \/ ResumeWorkflow(w)
        BY <1>1 DEF RunTask, ResumeWorkflow, Row, Waiting
  <1>2. CASE Recover(w)
        BY <1>2 DEF Recover, NeedsRecovery, AlreadyDone, Waiting, Parked
  <1>3. CASE pc[w] \in Inside /\ ~RunTask(w)
    <2>1. pc \in [Workers -> Pcs] /\ wf.state \notin Waiting
          BY <1>3 DEF IInv, TypeOK, WaitInv
    <2>2. \/ wf' = wf
          \/ \E l : wf' = Row(l, "RUNNING") \/ wf' = Row(l, "VERIFYING")
          BY <1>3, <2>1 DEF Cycle, Crash, Settle, MarkLost, Reconciled, NoJob, Claim, Skip, Recover,
             RefuseTask, ResumeWorkflow, RefuseResume, Deny, NoExecutor, Match,
             StartAttempt, Exhaust, Launch, Announce, ExecutorFails, AskPermission, Finish, Verify,
             DecisionFails, DecideState, DecideLoop, DecideAsk, RaiseAndPark, Park, Goto, Inside,
             rowVars
    <2> QED BY <2>1, <2>2 DEF Row, Waiting
  <1> QED BY <1>1, <1>2, <1>3, Moves

\* The question a worker parks on is the newest, and nobody can have more than
\* answered it.
LEMMA ParksCycle ==
  ASSUME IInv, AskedInv, WaitInv, NEW w \in Workers, Cycle(w) \/ Crash(w)
  PROVE  Parks(w)'
  <1>0. /\ pc \in [Workers -> Pcs] /\ loc \in [Workers -> Locals] /\ loc[w] \in Locals
        /\ att \in Seq(AttentionRow) /\ Len(att) \in Nat
        BY DEF IInv, TypeOK
  <1>1. ASSUME NEW kind \in {"DECISION", "APPROVAL", "SECURITY", "FAILURE", "CAPABILITY"},
               NEW auth \in Auths \cup {None}, NEW l \in Locals, NEW state \in States,
               RaiseAndPark(w, kind, auth, l, state), job' = job,
               state \in Waiting =>
                 /\ kind \in {"DECISION", "APPROVAL", "SECURITY"}
                 /\ kind = "DECISION" => state = "WAITING_FOR_HUMAN"
                 /\ kind = "APPROVAL" => state = "WAITING_FOR_APPROVAL"
        PROVE  Parks(w)'
    <2> DEFINE m == [l EXCEPT !.park = state]
               n == Notice(kind, auth, None)
    <2>1. m.park = state /\ n \in AttentionRow /\ n.kind = kind
          BY NoticeType DEF Locals, Notice
    <2>2. att' = Append(att, n) /\ loc' = [loc EXCEPT ![w] = m]
          BY <1>1 DEF RaiseAndPark, Raise
    <2> HIDE DEF m, n
    <2>3. Len(att') = Len(att) + 1 /\ att'[Len(att')] = n
          BY <1>0, <2>1, <2>2, AppendNotice
    <2>4. ASSUME Len(att') <= MaxAsked PROVE job'[<<"att", Len(att')>>].status = "ABSENT"
      <3>1. PICK i \in 1..MaxAsked : i = Len(att')
            BY <1>0, <2>3, <2>4, CountAssumption
      <3>2. i \notin 1..Len(att)
            BY <1>0, <2>3, <3>1
      <3> QED BY <1>1, <3>1, <3>2 DEF AskedInv
    <2>5. loc'[w].park = state
          BY <1>0, <2>1, <2>2
    <2> QED BY <1>0, <1>1, <2>1, <2>3, <2>4, <2>5 DEF Parks, Askable, Fits
  <1>2. CASE Recover(w)
    <2>1. Restore(wf) \in Locals
          BY RestoreType DEF IInv, TypeOK
    <2>2. loc'[w].park = "PAUSED"
          BY <1>0, <1>2, <2>1 DEF Recover, Locals
    <2> QED BY <2>2 DEF Parks, Waiting
  <1>a. {"FAILED", "WAITING_FOR_CAPABILITY", "WAITING_FOR_HUMAN", "WAITING_FOR_APPROVAL"} \subseteq States
        BY DEF States, Terminal, Parked
  <1>3. CASE NoExecutor(w)
        BY <1>0, <1>1, <1>3, <1>a DEF NoExecutor, jobVars, Waiting
  <1>4. CASE Exhaust(w)
        BY <1>0, <1>1, <1>4, <1>a DEF Exhaust, jobVars, Waiting
  <1>5. CASE ExecutorFails(w)
        BY <1>0, <1>1, <1>5, <1>a DEF ExecutorFails, jobVars, Waiting
  <1>6. ASSUME NEW auth \in Auths \cup {None}, AskPermission(w, auth) PROVE Parks(w)'
    <2>1. job' = job
          BY <1>6 DEF AskPermission, jobVars
    <2>2. CASE auth = None
      <3>1. RaiseAndPark(w, "SECURITY", None, loc[w], "WAITING_FOR_HUMAN")
            BY <1>6, <2>2 DEF AskPermission
      <3> QED BY <1>0, <1>1, <1>a, <2>1, <3>1
    <2>3. CASE auth # None
      <3>1. RaiseAndPark(w, "APPROVAL", auth, loc[w], "WAITING_FOR_APPROVAL")
            BY <1>6, <2>3 DEF AskPermission
      <3> QED BY <1>0, <1>1, <1>a, <2>1, <3>1
    <2> QED BY <2>2, <2>3
  <1>7. CASE \/ DecideAsk(w, "DECISION", "WAITING_FOR_HUMAN")
             \/ DecideAsk(w, "APPROVAL", "WAITING_FOR_APPROVAL")
    <2> DEFINE l == [Decided(w) EXCEPT !.sess = loc[w].cur]
    <2>1. l \in Locals /\ job' = job
      <3>1. Decided(w) \in Locals
            BY <1>7, DecidedType DEF DecideAsk
      <3> QED BY <1>0, <1>7, <3>1 DEF Locals, DecideAsk, jobVars
    <2>2. \/ RaiseAndPark(w, "DECISION", None, l, "WAITING_FOR_HUMAN")
          \/ RaiseAndPark(w, "APPROVAL", None, l, "WAITING_FOR_APPROVAL")
          BY <1>7 DEF DecideAsk
    <2> HIDE DEF l
    <2>3. CASE RaiseAndPark(w, "DECISION", None, l, "WAITING_FOR_HUMAN")
          BY <1>1, <1>a, <2>1, <2>3
    <2>4. CASE RaiseAndPark(w, "APPROVAL", None, l, "WAITING_FOR_APPROVAL")
          BY <1>1, <1>a, <2>1, <2>4
    <2> QED BY <2>2, <2>3, <2>4
  <1>8. CASE pc'[w] # "parking"
        BY <1>8 DEF Parks
  <1> QED BY <1>0, <1>2, <1>3, <1>4, <1>5, <1>6, <1>7, <1>8 DEF Cycle, Crash, Settle, MarkLost,
             Reconciled, NoJob, Claim, Skip, RefuseTask, RunTask, ResumeWorkflow, RefuseResume, Deny,
             Match, StartAttempt, Launch, Announce, Finish, Verify, DecisionFails, DecideState,
             DecideLoop, Park, Goto

\* The answer to the question the workflow waits on is accepted: by daemon.resume,
\* or, a denial, by the handler itself.
LEMMA Accepts ==
  ASSUME IInv, AskedInv, WaitInv, NEW w \in Workers, pc[w] = "claimed",
         NEW i \in 1..Len(att), i <= MaxAsked, WaitsOn(i), Answerable(i), doing[w] = <<"att", i>>
  PROVE  /\ ~AlreadyDone(w) /\ Type(w) \notin {"task.created", "scheduled.task"}
         /\ Type(w) \in ResumeTypes => Acceptable(w)
  <1>0. i \in 1..MaxAsked /\ att[i] \in AttentionRow /\ wf.state \in Waiting
    <2>1. att \in Seq(AttentionRow)
          BY DEF IInv, TypeOK
    <2> QED BY <2>1, CountAssumption DEF WaitsOn, Waiting
  <1>1. job[<<"att", i>>].status = "RUNNING"
        BY DEF WaitInv, Free
  <1>2. /\ ~att[i].open /\ job[doing[w]].att = i /\ Type(w) = att[i].answer
        /\ att[i].answer \in Answers(att[i].kind)
        BY <1>0, <1>1 DEF AskedInv, Type
  <1>3. Fits(i, wf.state)
        BY DEF WaitInv, Waits
  <1>4. Type(w) \notin {"task.created", "scheduled.task"}
        BY <1>2 DEF Answers
  <1>5. ~AlreadyDone(w)
        BY <1>0, <1>4 DEF AlreadyDone, Waiting, Terminal
  <1>6. CASE att[i].kind = "DECISION"
    <2>1. Type(w) = "human.replied" /\ wf.state = "WAITING_FOR_HUMAN"
          BY <1>2, <1>3, <1>6 DEF Answers, Fits
    <2> QED BY <1>4, <1>5, <2>1 DEF Acceptable, Expects
  <1>7. CASE att[i].kind = "APPROVAL" /\ att[i].auth # None
    <2>1. Type(w) \in {"approval.granted", "approval.denied"} /\ wf.state = "WAITING_FOR_APPROVAL"
          BY <1>2, <1>3, <1>7 DEF Answers, Fits
    <2>2. att[i].auth \in Auths
          BY <1>0, <1>7 DEF AttentionRow
    <2>3. Type(w) = "approval.granted" => att[i].auth \in Granted(i)
          BY <1>2, <1>7, <2>2 DEF Granted, Resolved
    <2> QED BY <1>2, <1>4, <1>5, <2>1, <2>3 DEF Acceptable, Expects, ResumeTypes
  <1>8. CASE att[i].kind = "SECURITY"
    <2>1. Type(w) = "approval.denied"
          BY <1>2, <1>8 DEF Answers
    <2> QED BY <1>4, <1>5, <2>1 DEF ResumeTypes
  <1> QED BY <1>6, <1>7, <1>8 DEF Answerable, WaitsOn, Askable

LEMMA WaitsCycle ==
  ASSUME OneWorker, IInv, AskedInv, WaitInv, NEW w \in Workers, Cycle(w) \/ Crash(w),
         NEW i \in 1..Len(att')
  PROVE  Waits(i)'
  <1>0. /\ pc \in [Workers -> Pcs] /\ loc \in [Workers -> Locals] /\ loc[w] \in Locals
        /\ job \in [JobIds -> JobRow] /\ doing \in [Workers -> JobIds \cup {None}]
        /\ att \in Seq(AttentionRow) /\ Len(att) \in Nat
        BY DEF IInv, TypeOK
  <1>1. CASE wf'.state \notin Waiting
        BY <1>1 DEF Waits, WaitsOn, Waiting
  <1>2. ASSUME wf' = wf, wf'.state \in Waiting PROVE Waits(i)'
    <2>1. pc[w] \notin Inside /\ pc'[w] \notin Inside
          BY <1>2, InsideCycle DEF WaitInv
    <2>2. \/ \E s \in DOMAIN session : MarkLost(w, s)
          \/ Reconciled(w) \/ NoJob(w) \/ (\E j \in JobIds : Claim(w, j))
          \/ Settle(w) \/ Crash(w) \/ Skip(w) \/ RefuseTask(w) \/ RefuseResume(w)
      <3>1. ~Deny(w)
        <4>1. [wf EXCEPT !.state = "FAILED"].state = "FAILED"
              BY DEF IInv, TypeOK, WorkflowRow
        <4> QED BY <1>2, <4>1 DEF Deny, Waiting
      <3>2. ~RunTask(w) /\ ~ResumeWorkflow(w)
            BY <1>2 DEF RunTask, ResumeWorkflow, Row, Waiting
      <3>3. ~Recover(w)
            BY <1>0, <2>1 DEF Recover, Goto, Inside
      <3> QED BY <2>1, <3>1, <3>2, <3>3 DEF Cycle, NoExecutor, Match, StartAttempt, Exhaust, Launch,
                 Announce, ExecutorFails, AskPermission, Finish, Verify, DecisionFails, DecideState,
                 DecideLoop, DecideAsk, Park, Inside
    <2>3. att' = att
      <3>1. ASSUME NEW s \in DOMAIN session, MarkLost(w, s) PROVE att' = att
            BY <1>0, <1>2, <3>1 DEF MarkLost, Waiting, Terminal, IInv, TypeOK, WorkflowRow
      <3> QED BY <2>2, <3>1 DEF Reconciled, NoJob, Claim, Settle, Crash, Skip, RefuseTask,
                 RefuseResume, rowVars
    <2> SUFFICES ASSUME WaitsOn(i), Answerable(i), i <= MaxAsked
                 PROVE  /\ job'[<<"att", i>>].status \notin Terminal
                        /\ pc'[w] \in {"done", "failing"} => doing'[w] # <<"att", i>>
      <3>1. i \in 1..Len(att) /\ (WaitsOn(i)' <=> WaitsOn(i)) /\ (Answerable(i)' <=> Answerable(i))
            BY <1>2, <2>3 DEF WaitsOn, Answerable, Askable
      <3>2. WaitsOn(i) /\ Answerable(i) /\ i <= MaxAsked => Fits(i, wf.state)
            BY <3>1 DEF WaitInv, Waits
      <3>3. Fits(i, wf.state) => Fits(i, wf.state)'
            BY <1>2, <2>3 DEF Fits
      <3> QED BY <3>1, <3>2, <3>3 DEF Waits, OneWorker
    <2> DEFINE k == <<"att", i>>
    <2>4. i \in 1..Len(att) /\ k \in JobIds
          BY <1>0, <2>3, CountAssumption, JobIdsType
    <2>5. /\ job[k].status \notin Terminal
          /\ pc[w] \in {"done", "failing"} => doing[w] # k
          BY <2>4 DEF WaitInv, Waits
    <2>6. pc[w] = "claimed" /\ doing[w] = k =>
            /\ ~AlreadyDone(w) /\ Type(w) \notin {"task.created", "scheduled.task"}
            /\ Type(w) \in ResumeTypes => Acceptable(w)
          BY <2>4, Accepts
    <2> HIDE DEF k
    <2>7. CASE Skip(w) \/ RefuseTask(w) \/ RefuseResume(w)
          BY <2>5, <2>6, <2>7 DEF Skip, RefuseTask, RefuseResume, jobVars, k
    <2>8. ASSUME NEW j \in JobIds, Claim(w, j)
          PROVE  job'[k].status \notin Terminal /\ pc'[w] = "claimed"
      <3> DEFINE r == [job[j] EXCEPT !.status = "RUNNING", !.holder = w, !.tries = @ + 1]
      <3>1. r.status = "RUNNING"
            BY <1>0 DEF JobRow
      <3>2. job' = [job EXCEPT ![j] = r] /\ pc'[w] = "claimed"
            BY <1>0, <2>8 DEF Claim, Goto
      <3> HIDE DEF r
      <3> QED BY <1>0, <2>4, <2>5, <3>1, <3>2 DEF Terminal
    <2>9. CASE Settle(w)
      <3>1. doing[w] # k /\ doing[w] \in JobIds /\ pc'[w] = "idle"
            BY <1>0, <2>5, <2>9 DEF Settle, Goto, IInv, BusyInv, Free
      <3>2. job'[k] = job[k]
            BY <1>0, <2>4, <2>9, <3>1 DEF Settle, jobVars
      <3> QED BY <2>5, <3>1, <3>2 DEF k
    <2>10. CASE (\E s \in DOMAIN session : MarkLost(w, s)) \/ Reconciled(w) \/ NoJob(w) \/ Crash(w)
      <3>1. job' = job /\ pc'[w] \in Free
            BY <1>0, <2>10 DEF MarkLost, Reconciled, NoJob, Crash, Goto, jobVars, Free
      <3> QED BY <2>5, <3>1 DEF Free, k
    <2> QED BY <2>2, <2>7, <2>8, <2>9, <2>10 DEF k
  <1>3. ASSUME Park(w), wf'.state \in Waiting PROVE Waits(i)'
    <2>1. /\ pc[w] = "parking" /\ wf'.state = loc[w].park /\ att' = att /\ job' = job
          /\ pc'[w] = "done" /\ doing' = doing
          BY <1>0, <1>3 DEF Park, Row, Goto, jobVars
    <2>2. /\ Len(att) >= 1 /\ Askable(Len(att)) /\ Fits(Len(att), wf'.state)
          /\ Len(att) <= MaxAsked => job[<<"att", Len(att)>>].status \in {"ABSENT", "PENDING"}
          BY <1>3, <2>1 DEF WaitInv, Parks
    <2> SUFFICES ASSUME WaitsOn(i)', i <= MaxAsked PROVE Waits(i)'
        BY DEF Waits
    <2>3. i = Len(att)
      <3>1. Len(att) \in DOMAIN att /\ Askable(Len(att))'
            BY <1>0, <2>1, <2>2 DEF Askable
      <3>2. ~(Len(att) > i)
            BY <2>1, <3>1 DEF WaitsOn
      <3> QED BY <1>0, <2>1, <3>2
    <2>4. job[doing[w]].status = "RUNNING"
          BY <2>1 DEF WaitInv, Free
    <2>5. Fits(i, wf.state)'
          BY <2>1, <2>2, <2>3 DEF Fits
    <2> QED BY <2>1, <2>2, <2>3, <2>4, <2>5 DEF Waits, OneWorker, Terminal
  <1>4. wf'.state \in Waiting => wf' = wf \/ Park(w)
    <2>1. CASE wf' = [wf EXCEPT !.state = "FAILED"]
      <3>1. wf \in WorkflowRow
            BY DEF IInv, TypeOK
      <3> QED BY <2>1, <3>1 DEF WorkflowRow, Waiting
    <2>2. CASE \E l : \E st \in {"RUNNING", "VERIFYING", "COMPLETED", "PAUSED", "FAILED"} :
                 wf' = Row(l, st)
          BY <2>2 DEF Row, Waiting
    <2> QED BY <2>1, <2>2 DEF Cycle, Crash, Settle, MarkLost, Reconciled, NoJob, Claim, Skip, Recover,
             RefuseTask, RunTask, ResumeWorkflow, RefuseResume, Deny, NoExecutor, Match, StartAttempt,
             Exhaust, Launch, Announce, ExecutorFails, AskPermission, Finish, Verify, DecisionFails,
             DecideState, DecideLoop, DecideAsk, rowVars
  <1> QED BY <1>1, <1>2, <1>3, <1>4

LEMMA WaitCycle ==
  ASSUME OneWorker, IInv, AskedInv, WaitInv, NEW w \in Workers, Cycle(w) \/ Crash(w)
  PROVE  WaitInv'
  <1>1. pc'[w] \notin Free => job'[doing'[w]].status = "RUNNING"
    <2>1. ASSUME NEW j \in JobIds, Claim(w, j) PROVE job'[doing'[w]].status = "RUNNING"
      <3> DEFINE r == [job[j] EXCEPT !.status = "RUNNING", !.holder = w, !.tries = @ + 1]
      <3>1. job \in [JobIds -> JobRow] /\ doing \in [Workers -> JobIds \cup {None}]
            BY DEF IInv, TypeOK
      <3>2. r.status = "RUNNING"
            BY <3>1 DEF JobRow
      <3>3. job' = [job EXCEPT ![j] = r] /\ doing'[w] = j
            BY <2>1, <3>1 DEF Claim
      <3> HIDE DEF r
      <3> QED BY <3>1, <3>2, <3>3
    <2> QED BY <2>1, Moves DEF WaitInv
  <1>2. /\ pc'[w] \in Inside => wf'.state \notin Waiting
        /\ Parks(w)' /\ \A i \in 1..Len(att') : Waits(i)'
        BY InsideCycle, ParksCycle, WaitsCycle
  <1> QED BY <1>1, <1>2 DEF WaitInv, OneWorker

\* Neither inputs nor the ends of leases and executors touch what is waited on.
LEMMA WaitQuiet ==
  ASSUME IInv, WaitInv, UNCHANGED <<wf, pc, doing, loc>>,
         att' \in Seq(AttentionRow), Len(att') = Len(att),
         \A i \in 1..Len(att) : att'[i].kind = att[i].kind /\ att'[i].auth = att[i].auth,
         \A j \in JobIds : \/ job'[j] = job[j]
                           \/ job[j].status = "ABSENT" /\ job'[j].status = "PENDING"
  PROVE  WaitInv'
  <1>0. Len(att) \in Nat /\ DOMAIN att = 1..Len(att) /\ DOMAIN att' = 1..Len(att)
    <2>1. att \in Seq(AttentionRow) /\ att' \in Seq(AttentionRow)
          BY DEF IInv, TypeOK
    <2> QED BY <2>1
  <1>1. \A i \in 1..MaxAsked : <<"att", i>> \in JobIds
        BY JobIdsType
  <1>2. \A i \in 1..Len(att) : i <= MaxAsked => i \in 1..MaxAsked
        BY <1>0, CountAssumption
  <1>3. \A i \in 1..Len(att) : /\ WaitsOn(i)' <=> WaitsOn(i)
                               /\ Answerable(i)' <=> Answerable(i)
                               /\ Askable(i)' <=> Askable(i)
    <2>1. \A i \in 1..Len(att) : /\ Answerable(i)' <=> Answerable(i)
                                 /\ Askable(i)' <=> Askable(i)
          BY DEF Answerable, Askable
    <2> QED BY <1>0, <2>1 DEF WaitsOn
  <1>4. \A i \in 1..Len(att) : Waits(i)'
        BY <1>1, <1>2, <1>3 DEF WaitInv, Waits, Fits, Terminal
  <1>5. ASSUME NEW w \in Workers
        PROVE  /\ pc'[w] \notin Free => job'[doing'[w]].status = "RUNNING"
               /\ pc'[w] \in Inside => wf'.state \notin Waiting
               /\ Parks(w)'
    <2>1. pc[w] \notin Free => job'[doing[w]].status = "RUNNING"
          BY DEF WaitInv, IInv, BusyInv
    <2>2. Parks(w)'
          BY <1>0, <1>1, <1>2, <1>3 DEF WaitInv, Parks, Fits
    <2> QED BY <2>1, <2>2 DEF WaitInv
  <1> QED BY <1>4, <1>5 DEF WaitInv

LEMMA WaitNext == DefaultKeys /\ IInv /\ AskedInv /\ WaitInv /\ [Next]_vars => AskedInv' /\ WaitInv'
  <1> SUFFICES ASSUME DefaultKeys, IInv, AskedInv, WaitInv, [Next]_vars
               PROVE  AskedInv' /\ WaitInv'
      OBVIOUS
  <1>0. OneWorker /\ Keys = 0 /\ att' \in Seq(AttentionRow)
        BY StepTypes DEF DefaultKeys, IInv, TypeOK
  <1>1. ASSUME NEW w \in Workers, Cycle(w) \/ Crash(w) PROVE AskedInv' /\ WaitInv'
        BY <1>0, <1>1, AskedCycle, WaitCycle
  <1>2. ASSUME Inputs PROVE AskedInv' /\ WaitInv'
        BY <1>0, <1>2, AskedInputs, WaitQuiet
  <1>3. ASSUME UNCHANGED <<job, att, commands, wf, pc, doing, loc>> PROVE AskedInv' /\ WaitInv'
    <2>1. AskedInv'
          BY <1>3 DEF AskedInv
    <2> QED BY <1>0, <1>3, <2>1, WaitQuiet
  <1> QED BY <1>1, <1>2, <1>3 DEF Next, OrphanExits, LapseDead, LapseLive, vars, jobVars, rowVars

(* A workflow parked on a question is never stranded, with one worker and    *)
(* the keys the command line chooses itself: the question is open, or its    *)
(* answer is queued or in work, whatever crashed in between.                 *)
THEOREM WaitsAreAnswerable == Spec => [](DefaultKeys => WaitIsAnswerable)
  <1>1. Init => IInv /\ (DefaultKeys => AskedInv /\ WaitInv)
        BY InitTypes, AskedInit
  <1>2. IInv /\ (DefaultKeys => AskedInv /\ WaitInv) /\ [Next]_vars
          => IInv' /\ (DefaultKeys => AskedInv /\ WaitInv)'
        BY StepTypes, WaitNext DEF DefaultKeys, OneWorker
  <1>3. IInv /\ (DefaultKeys => AskedInv /\ WaitInv) => (DefaultKeys => WaitIsAnswerable)
    <2> SUFFICES ASSUME IInv, AskedInv, WaitInv, NEW i \in DOMAIN att, i <= MaxAsked, WaitsOn(i),
                        Answerable(i), ~att[i].open
                 PROVE  Underway(i)
        BY DEF WaitIsAnswerable
    <2>1. i \in 1..Len(att) /\ i \in 1..MaxAsked /\ <<"att", i>> \in JobIds
      <3>1. i \in 1..Len(att)
            BY DEF IInv, TypeOK
      <3> QED BY <3>1, CountAssumption, JobIdsType
    <2>2. job[<<"att", i>>].status \notin Terminal \cup {"ABSENT"} /\ job[<<"att", i>>].att = i
          BY <2>1 DEF AskedInv, WaitInv, Waits
    <2>3. job[<<"att", i>>] \in JobRow
          BY <2>1 DEF IInv, TypeOK
    <2> QED BY <2>1, <2>2, <2>3 DEF Underway, JobRow, Terminal
  <1> QED BY <1>1, <1>2, <1>3, PTL DEF Spec

=============================================================================
