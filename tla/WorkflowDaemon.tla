--------------------------- MODULE WorkflowDaemon ---------------------------
(***************************************************************************)
(* One workflow from its task event to its end: the job handler of         *)
(* lib/runtime/production-runtime.mjs, the decision loop of                *)
(* lib/runtime/daemon.mjs, process reconciliation, and the operator        *)
(* commands of bin/gpt-relay.mjs, over the jobs, workflows, attempts,      *)
(* sessions and attention tables.                                          *)
(*                                                                         *)
(* The rows are durable; what a worker knows of an #execute call (loc) is  *)
(* lost when it crashes.  A step runs up to the next await.  Where one     *)
(* block first creates an Attention and then saves the workflow, the two   *)
(* are separate steps, so that a crash may fall between them.  The job     *)
(* table is taken at the level of JobLedger: leases are RuntimeService's,  *)
(* here a grant merely lapses.                                             *)
(*                                                                         *)
(* ForgetAttempts, ClaimOnlyNew, AskedBefore, SkipAllParked, GrantedBy,    *)
(* ActionsLeft and AnyRunning are faulty forms of the definition that      *)
(* follows each, to show that a property notices them; no action uses one. *)
(***************************************************************************)
EXTENDS Naturals, Sequences, FiniteSets

CONSTANTS
  Workers,     \* service processes
  Auths,       \* authorizations an executor may ask for by name
  MaxAttempts, \* maxAttempts
  MaxActions,  \* maxActions
  Tasks, Schedules, Triggers, Keys,
               \* how many task events, schedule occurrences, GitHub events
               \* and --idempotency-key values there are
  MaxAsked,    \* bound on the Attentions an operator answers
  MaxCommands, \* bound on operator commands at work at once
  MaxCrashes,  \* bound on worker crashes
  MaxStalls,   \* bound on grants that lapse under a living worker
  None         \* SQL NULL

ASSUME BudgetAssumption == MaxAttempts \in Nat \ {0} /\ MaxActions \in Nat \ {0}
ASSUME CountAssumption ==
  /\ Tasks \in Nat /\ Schedules \in Nat /\ Triggers \in Nat /\ Keys \in Nat
  /\ MaxAsked \in Nat /\ MaxCommands \in Nat
  /\ MaxCrashes \in Nat /\ MaxStalls \in Nat
ASSUME DaemonNoneAssumption == None \notin Workers /\ None \notin Auths

VARIABLES
  job,       \* runtime_jobs: [type, status, tries, att, holder] by job id
  lapsed,    \* jobs whose lease ran out
  wf,        \* the workflow row with its checkpoint
  attempt,   \* status of each attempt row, in the order of creation
  session,   \* the session first announced in each attempt, if any
  att,       \* the attention table, in the order of creation
  commands,  \* respondToAttention calls that have read an open Attention
  pc, doing, \* what each worker does, and its job
  loc,       \* local variables of #execute
  procs,     \* attempts whose executor process is alive
  crashes, stalls,
  launches,  \* (history) executor launches since the last daemon.run
  launchedBy \* (history) <<job, its claim>> that launched an executor

jobVars  == <<job, lapsed>>
rowVars  == <<wf, attempt, session, att>>
procVars == <<procs, launches, launchedBy>>
vars == <<job, lapsed, wf, attempt, session, att, commands, pc, doing, loc,
          procs, crashes, stalls, launches, launchedBy>>

-----------------------------------------------------------------------------
(* Rows.                                                                     *)

\* J-event-<id>, J-schedule-<id>, J-resume-<run>, J-attention-<id> and the
\* keys an operator chooses.
JobIds ==
  UNION { {"task"}   \X (1..Tasks),    {"sched"} \X (1..Schedules),
          {"event"}  \X (1..Triggers), {"att"}   \X (1..MaxAsked),
          {"key"}    \X (1..Keys),     {<<"resume", 0>>} }

ResumeTypes == {"human.replied", "approval.granted", "workflow.resume_requested"}
JobTypes == ResumeTypes \cup {"task.created", "scheduled.task", "approval.denied"}

JobRow == [type : JobTypes \cup {"none"},
           status : {"ABSENT", "PENDING", "RUNNING", "COMPLETED", "FAILED"},
           tries : Nat, att : Nat, holder : Workers \cup {None}]

Terminal == {"COMPLETED", "FAILED"}   \* nothing here sets CANCELLED
Parked   == {"WAITING_FOR_HUMAN", "WAITING_FOR_APPROVAL",
             "WAITING_FOR_CAPABILITY", "PAUSED"}
States   == Terminal \cup Parked \cup {"NONE", "RUNNING", "VERIFYING"}

\* The row with its checkpoint: attempt_count, action_count, resume_session_id,
\* and what current_task is authorized to do beyond the Task Contract.
WorkflowRow == [state : States, tries : 0..MaxAttempts, acts : 0..MaxActions,
                sess : Nat, grants : SUBSET Auths]

SessionRow == [announced : BOOLEAN, running : BOOLEAN, head : Nat, pid : BOOLEAN]

AttentionRow ==
  [kind : {"DECISION", "APPROVAL", "SECURITY", "RECOVERY", "FAILURE", "CAPABILITY"},
   open : BOOLEAN, auth : Auths \cup {None}, answer : JobTypes \cup {"none"},
   of : JobIds \cup {None}]

\* cur is executionContext.session_id, att the attempt at work, res the status
\* of its result, park the state the workflow is about to be saved in.
Locals == [tries : 0..MaxAttempts, acts : 0..MaxActions, sess : Nat,
           grants : SUBSET Auths, cur : Nat, att : Nat,
           res : {"none", "PASS", "FAIL"}, park : States]

Fresh == [tries |-> 0, acts |-> 0, sess |-> 0, grants |-> {}, cur |-> 0,
          att |-> 0, res |-> "none", park |-> "NONE"]

Restore(row) == [Fresh EXCEPT !.tries = row.tries, !.acts = row.acts,
                              !.sess = row.sess, !.grants = row.grants]

\* saveWorkflow with durableCheckpoint: the whole row, from local variables.
ForgetAttempts(l, state) ==
  [state |-> state, tries |-> 0, acts |-> l.acts, sess |-> l.sess,
   grants |-> l.grants]
Row(l, state) ==
  [state |-> state, tries |-> l.tries, acts |-> l.acts, sess |-> l.sess,
   grants |-> l.grants]

Pcs == {"idle", "polling", "claimed", "matching", "looping", "launching",
        "executing", "judging", "deciding", "parking", "done", "failing"}

Command == [att : Nat, type : JobTypes, key : JobIds]

TypeOK ==
  /\ job \in [JobIds -> JobRow]
  /\ lapsed \subseteq JobIds
  /\ wf \in WorkflowRow
  /\ attempt \in Seq({"RUNNING", "BLOCKED", "PASS", "FAIL"})
  /\ session \in Seq(SessionRow) /\ Len(session) = Len(attempt)
  /\ att \in Seq(AttentionRow)
  /\ commands \subseteq Command
  /\ pc \in [Workers -> Pcs]
  /\ doing \in [Workers -> JobIds \cup {None}]
  /\ loc \in [Workers -> Locals]
  /\ procs \subseteq 1..Len(attempt)
  /\ crashes \in 0..MaxCrashes /\ stalls \in 0..MaxStalls
  /\ launches \in Nat
  /\ launchedBy \subseteq JobIds \X Nat

Init ==
  /\ job = [j \in JobIds |-> [type |-> "none", status |-> "ABSENT", tries |-> 0,
                              att |-> 0, holder |-> None]]
  /\ lapsed = {}
  /\ wf = Row(Fresh, "NONE")
  /\ attempt = <<>> /\ session = <<>> /\ att = <<>>
  /\ commands = {}
  /\ pc = [w \in Workers |-> "idle"]
  /\ doing = [w \in Workers |-> None]
  /\ loc = [w \in Workers |-> Fresh]
  /\ procs = {}
  /\ crashes = 0 /\ stalls = 0
  /\ launches = 0 /\ launchedBy = {}

\* enqueueJob: INSERT OR IGNORE.
Insert(j, type, i) ==
  job' = IF job[j].status # "ABSENT" THEN job
         ELSE [job EXCEPT ![j] = [type |-> type, status |-> "PENDING",
                                  tries |-> 0, att |-> i, holder |-> None]]

\* createAttention.
Notice(kind, auth, j) ==
  [kind |-> kind, open |-> TRUE, auth |-> auth, answer |-> "none", of |-> j]

Raise(kind, auth) == att' = Append(att, Notice(kind, auth, None))

Goto(w, label) == pc' = [pc EXCEPT ![w] = label]

-----------------------------------------------------------------------------
(* Where jobs come from: routed events, the scheduler and the operator.      *)

\* createProductionRoute on task.created, and RuntimeHost on an occurrence.
TaskEvent(n) ==
  /\ Insert(<<"task", n>>, "task.created", 0)
  /\ UNCHANGED <<lapsed, rowVars, commands, pc, doing, loc, procVars, crashes,
                 stalls>>

Occurrence(n) ==
  /\ Insert(<<"sched", n>>, "scheduled.task", 0)
  /\ UNCHANGED <<lapsed, rowVars, commands, pc, doing, loc, procVars, crashes,
                 stalls>>

\* createProductionRoute on a GitHub event, which any other state drops.
Trigger(n) ==
  /\ wf.state \in {"VERIFYING", "PAUSED"}
  /\ Insert(<<"event", n>>, "workflow.resume_requested", 0)
  /\ UNCHANGED <<lapsed, rowVars, commands, pc, doing, loc, procVars, crashes,
                 stalls>>

\* gpt-relay workflow resume.
OperatorResume(j) ==
  /\ wf.state = "PAUSED"
  /\ Insert(j, "workflow.resume_requested", 0)
  /\ UNCHANGED <<lapsed, rowVars, commands, pc, doing, loc, procVars, crashes,
                 stalls>>

\* What gpt-relay human reply, approval grant or deny, and security deny answer.
Answers(kind) ==
  CASE kind = "DECISION" -> {"human.replied"}
    [] kind = "APPROVAL" -> {"approval.granted", "approval.denied"}
    [] kind = "SECURITY" -> {"approval.denied"}
    [] OTHER -> {}

\* respondToAttention reads the row outside its transaction ...
ReadAttention(i, type, key) ==
  /\ Cardinality(commands) < MaxCommands
  /\ i \in DOMAIN att /\ att[i].open
  /\ type \in Answers(att[i].kind)
  /\ commands' = commands \cup {[att |-> i, type |-> type, key |-> key]}
  /\ UNCHANGED <<jobVars, rowVars, pc, doing, loc, procVars, crashes, stalls>>

\* ... which then resolves the Attention if it is still open, and enqueues
\* the job in either case.
Respond(c) ==
  /\ commands' = commands \ {c}
  /\ att' = IF att[c.att].open
            THEN [att EXCEPT ![c.att].open = FALSE, ![c.att].answer = c.type]
            ELSE att
  /\ Insert(c.key, c.type, c.att)
  /\ UNCHANGED <<lapsed, wf, attempt, session, pc, doing, loc, procVars, crashes,
                 stalls>>

-----------------------------------------------------------------------------
(* A service cycle up to the claim.                                          *)

\* Sessions reconcile finds RUNNING with a process that is gone.
Dead == {s \in DOMAIN session :
           session[s].running /\ session[s].pid /\ session[s].head \notin procs}

\* markLost: also the head attempt, unless it is over, and its workflow.
MarkLost(w, s) ==
  /\ pc[w] = "idle" /\ s \in Dead
  /\ session' = [session EXCEPT ![s].running = FALSE]
  /\ IF attempt[session[s].head] \in {"PASS", "FAIL"}
     THEN UNCHANGED <<attempt, wf, att>>
     ELSE /\ attempt' = [attempt EXCEPT ![session[s].head] = "FAIL"]
          /\ wf' = IF wf.state \in Terminal THEN wf
                   ELSE [wf EXCEPT !.state = "FAILED"]
          /\ Raise("FAILURE", None)
  /\ UNCHANGED <<jobVars, commands, pc, doing, loc, procVars, crashes, stalls>>

Reconciled(w) ==
  /\ pc[w] = "idle" /\ Dead = {}
  /\ Goto(w, "polling")
  /\ UNCHANGED <<jobVars, rowVars, commands, doing, loc, procVars, crashes, stalls>>

ClaimOnlyNew(j) == job[j].status = "PENDING"
Claimable(j) ==
  job[j].status = "PENDING" \/ (job[j].status = "RUNNING" /\ j \in lapsed)

Claim(w, j) ==
  /\ pc[w] = "polling" /\ Claimable(j)
  /\ job' = [job EXCEPT ![j].status = "RUNNING", ![j].holder = w,
                        ![j].tries = @ + 1]
  /\ lapsed' = lapsed \ {j}
  /\ doing' = [doing EXCEPT ![w] = j]
  /\ Goto(w, "claimed")
  /\ UNCHANGED <<rowVars, commands, loc, procVars, crashes, stalls>>

NoJob(w) ==
  /\ pc[w] = "polling" /\ \A j \in JobIds : ~Claimable(j)
  /\ Goto(w, "idle")
  /\ UNCHANGED <<jobVars, rowVars, commands, doing, loc, procVars, crashes, stalls>>

-----------------------------------------------------------------------------
(* createRuntimeJobHandler.                                                  *)

Type(w) == job[doing[w]].type

\* recoveredWorkflow: the row, for a job claimed before.
Recovered(w) == job[doing[w]].tries > 1 /\ wf.state # "NONE"

\* attempt_count > 0: an executor may have been launched.
AskedBefore == wf.sess # 0
Uncertain == wf.tries > 0

\* A reclaimed job whose workflow is over; a task job also when it is parked.
SkipAllParked(w) == Recovered(w) /\ wf.state \in Terminal \cup Parked
AlreadyDone(w) ==
  /\ Recovered(w)
  /\ \/ wf.state \in Terminal
     \/ Type(w) = "task.created" /\ wf.state \in Parked

NeedsRecovery(w) ==
  Type(w) = "task.created" /\ Recovered(w) /\ ~AlreadyDone(w) /\ Uncertain

Skip(w) ==
  /\ pc[w] = "claimed" /\ AlreadyDone(w)
  /\ Goto(w, "done")
  /\ UNCHANGED <<jobVars, rowVars, commands, doing, loc, procVars, crashes, stalls>>

\* ATT-recovery-<job>, created at most once, and the row read is saved PAUSED.
Recover(w) ==
  /\ pc[w] = "claimed" /\ NeedsRecovery(w)
  /\ LET note == Notice("RECOVERY", None, doing[w]) IN
     att' = IF \E i \in DOMAIN att : att[i].kind = "RECOVERY" /\ att[i].of = doing[w]
            THEN att ELSE Append(att, note)
  /\ loc' = [loc EXCEPT ![w] = [Restore(wf) EXCEPT !.park = "PAUSED"]]
  /\ Goto(w, "parking")
  /\ UNCHANGED <<jobVars, wf, attempt, session, commands, doing, procVars,
                 crashes, stalls>>

\* The contract cannot be read, lies outside the workspace, is invalid or is
\* another task's.
RefuseTask(w) ==
  /\ pc[w] = "claimed" /\ Type(w) \in {"task.created", "scheduled.task"}
  /\ ~AlreadyDone(w) /\ ~NeedsRecovery(w)
  /\ Goto(w, "failing")
  /\ UNCHANGED <<jobVars, rowVars, commands, doing, loc, procVars, crashes, stalls>>

\* daemon.run: a new checkpoint over whatever the row held.  Then the first
\* await, unless the scope is not the gap (it throws) or there is no gap: with
\* no onPrimary the null result leaves the workflow RUNNING.
RunTask(w) ==
  /\ pc[w] = "claimed" /\ Type(w) \in {"task.created", "scheduled.task"}
  /\ ~AlreadyDone(w) /\ ~NeedsRecovery(w)
  /\ wf' = Row(Fresh, "RUNNING")
  /\ loc' = [loc EXCEPT ![w] = Fresh]
  /\ launches' = 0
  /\ \E label \in {"matching", "failing", "done"} : Goto(w, label)
  /\ UNCHANGED <<jobVars, attempt, session, att, commands, doing, procs,
                 launchedBy, crashes, stalls>>

\* The input daemon.resume accepts in each state.
Expects(state) ==
  CASE state = "WAITING_FOR_HUMAN" -> "human.replied"
    [] state = "WAITING_FOR_APPROVAL" -> "approval.granted"
    [] state \in {"PAUSED", "VERIFYING"} -> "workflow.resume_requested"
    [] OTHER -> "none"

\* The authorization a granted Attention adds to the task.
Resolved(i) == ~att[i].open
GrantedBy(i) ==
  {a \in Auths : att[i].kind = "APPROVAL" /\ Resolved(i) /\ att[i].auth = a}
Granted(i) ==
  {a \in Auths : /\ att[i].kind = "APPROVAL" /\ Resolved(i)
                 /\ att[i].answer = "approval.granted" /\ att[i].auth = a}

\* approval.granted needs an Attention that names an authorization.
Acceptable(w) ==
  /\ Expects(wf.state) = Type(w)
  /\ Type(w) = "approval.granted" => Granted(job[doing[w]].att) # {}

ResumeWorkflow(w) ==
  /\ pc[w] = "claimed" /\ Type(w) \in ResumeTypes /\ ~AlreadyDone(w)
  /\ Acceptable(w)
  /\ LET new == IF Type(w) = "approval.granted"
                THEN Granted(job[doing[w]].att) ELSE {}
         l == [Restore(wf) EXCEPT !.grants = @ \cup new]
     IN /\ loc' = [loc EXCEPT ![w] = l]
        /\ wf' = Row(l, "RUNNING")
  /\ Goto(w, "matching")
  /\ UNCHANGED <<jobVars, attempt, session, att, commands, doing, procVars,
                 crashes, stalls>>

RefuseResume(w) ==
  /\ pc[w] = "claimed" /\ Type(w) \in ResumeTypes /\ ~AlreadyDone(w)
  /\ ~Acceptable(w)
  /\ Goto(w, "failing")
  /\ UNCHANGED <<jobVars, rowVars, commands, doing, loc, procVars, crashes, stalls>>

\* approval.denied looks at neither the state nor the Attention.
Deny(w) ==
  /\ pc[w] = "claimed" /\ Type(w) = "approval.denied" /\ ~AlreadyDone(w)
  /\ wf' = [wf EXCEPT !.state = "FAILED"]
  /\ Goto(w, "done")
  /\ UNCHANGED <<jobVars, attempt, session, att, commands, doing, loc, procVars,
                 crashes, stalls>>

-----------------------------------------------------------------------------
(* WorkflowDaemon.#execute.                                                  *)

\* An Attention, and the state the workflow is saved in right after it.
RaiseAndPark(w, kind, auth, l, state) ==
  /\ Raise(kind, auth)
  /\ loc' = [loc EXCEPT ![w] = [l EXCEPT !.park = state]]
  /\ Goto(w, "parking")

\* registry.match found no ready executor.
NoExecutor(w) ==
  /\ pc[w] = "matching"
  /\ RaiseAndPark(w, "CAPABILITY", None, loc[w], "WAITING_FOR_CAPABILITY")
  /\ UNCHANGED <<jobVars, wf, attempt, session, commands, doing, procVars,
                 crashes, stalls>>

Match(w) ==
  /\ pc[w] = "matching"
  /\ Goto(w, "looping")
  /\ UNCHANGED <<jobVars, rowVars, commands, doing, loc, procVars, crashes, stalls>>

\* The condition of the while loop.
ActionsLeft(l) == l.acts < MaxActions
InBudget(l) == l.tries < MaxAttempts /\ l.acts < MaxActions

\* The attempt is counted and saved before the executor is called.
StartAttempt(w) ==
  /\ pc[w] = "looping" /\ InBudget(loc[w])
  /\ LET a == Len(attempt) + 1
         s == loc[w].sess
         l == [loc[w] EXCEPT !.tries = @ + 1, !.att = a, !.cur = s, !.res = "none"]
     IN /\ attempt' = Append(attempt, "RUNNING")
        /\ session' =
             [b \in 1..a |->
                IF b = a THEN [announced |-> FALSE, running |-> FALSE,
                               head |-> 0, pid |-> FALSE]
                ELSE IF b = s THEN [session[s] EXCEPT !.running = TRUE,
                                                      !.head = a, !.pid = FALSE]
                ELSE session[b]]
        /\ loc' = [loc EXCEPT ![w] = l]
        /\ wf' = Row(l, "RUNNING")
  /\ Goto(w, "launching")
  /\ UNCHANGED <<jobVars, att, commands, doing, procVars, crashes, stalls>>

Exhaust(w) ==
  /\ pc[w] = "looping" /\ ~InBudget(loc[w])
  /\ RaiseAndPark(w, "FAILURE", None, loc[w], "FAILED")
  /\ UNCHANGED <<jobVars, wf, attempt, session, commands, doing, procVars,
                 crashes, stalls>>

\* adapter.start or adapter.resume; a resumed session gets its pid.
Launch(w) ==
  /\ pc[w] = "launching"
  /\ procs' = procs \cup {loc[w].att}
  /\ launches' = launches + 1
  /\ launchedBy' = launchedBy \cup {<<doing[w], job[doing[w]].tries>>}
  /\ session' = [s \in DOMAIN session |->
                   [session[s] EXCEPT !.pid = @ \/ s = loc[w].cur]]
  /\ Goto(w, "executing")
  /\ UNCHANGED <<jobVars, wf, attempt, att, commands, doing, loc, crashes, stalls>>

\* thread.started of a new session.
Announce(w) ==
  /\ pc[w] = "executing" /\ loc[w].cur = 0
  /\ session' = [session EXCEPT ![loc[w].att] =
                   [announced |-> TRUE, running |-> TRUE, head |-> loc[w].att,
                    pid |-> TRUE]]
  /\ loc' = [loc EXCEPT ![w].cur = loc[w].att]
  /\ UNCHANGED <<jobVars, wf, attempt, att, commands, pc, doing, procVars, crashes,
                 stalls>>

\* The session row of the attempt is no longer RUNNING: READY or LOST.
EndSession(w) ==
  session' = [s \in DOMAIN session |->
                [session[s] EXCEPT !.running = @ /\ s # loc[w].cur]]

CloseAttempt(w, outcome) ==
  /\ attempt' = [attempt EXCEPT ![loc[w].att] = outcome]
  /\ EndSession(w)

\* permission.requested: cancel, then Attention.  What only a human may
\* decide (credentials, destructive operations, anything unnamed) is None.
AskPermission(w, auth) ==
  /\ pc[w] = "executing"
  /\ procs' = procs \ {loc[w].att}
  /\ CloseAttempt(w, "BLOCKED")
  /\ IF auth = None
     THEN RaiseAndPark(w, "SECURITY", None, loc[w], "WAITING_FOR_HUMAN")
     ELSE RaiseAndPark(w, "APPROVAL", auth, loc[w], "WAITING_FOR_APPROVAL")
  /\ UNCHANGED <<jobVars, wf, commands, doing, launches, launchedBy, crashes, stalls>>

\* The catch of the executor's lifecycle does not cancel what may still run.
ExecutorFails(w) ==
  /\ pc[w] \in {"launching", "executing"}
  /\ procs' \in {procs, procs \ {loc[w].att}}
  /\ CloseAttempt(w, "FAIL")
  /\ RaiseAndPark(w, "FAILURE", None, loc[w], "FAILED")
  /\ UNCHANGED <<jobVars, wf, commands, doing, launches, launchedBy, crashes, stalls>>

\* collectResult; PARTIAL and BLOCKED results count as FAIL.
Finish(w, res) ==
  /\ pc[w] = "executing"
  /\ procs' = procs \ {loc[w].att}
  /\ CloseAttempt(w, res)
  /\ loc' = [loc EXCEPT ![w].res = res]
  /\ Goto(w, "judging")
  /\ UNCHANGED <<jobVars, wf, att, commands, doing, launches, launchedBy, crashes,
                 stalls>>

\* result.created and result.validated are stored, then VERIFYING is saved.
Verify(w) ==
  /\ pc[w] = "judging"
  /\ wf' = Row(loc[w], "VERIFYING")
  /\ Goto(w, "deciding")
  /\ UNCHANGED <<jobVars, attempt, session, att, commands, doing, loc, procVars,
                 crashes, stalls>>

\* No decision, an invalid one, COMPLETE without a validated PASS, or a Result
\* Contract that cannot be written: #execute throws.
DecisionFails(w) ==
  /\ pc[w] = "deciding"
  /\ Goto(w, "failing")
  /\ UNCHANGED <<jobVars, rowVars, commands, doing, loc, procVars, crashes, stalls>>

Decided(w) == [loc[w] EXCEPT !.acts = @ + 1]

\* COMPLETE, PAUSE, WAIT and FAIL save the workflow and return.
DecideState(w, state) ==
  /\ pc[w] = "deciding"
  /\ state = "COMPLETED" => loc[w].res = "PASS"
  /\ wf' = Row(Decided(w), state)
  /\ Goto(w, "done")
  /\ UNCHANGED <<jobVars, attempt, session, att, commands, doing, loc, procVars,
                 crashes, stalls>>

\* FOLLOW_UP goes on with the session, RETRY and DISPATCH without one.
DecideLoop(w, sess) ==
  /\ pc[w] = "deciding"
  /\ loc' = [loc EXCEPT ![w] = [Decided(w) EXCEPT !.sess = sess]]
  /\ Goto(w, "looping")
  /\ UNCHANGED <<jobVars, rowVars, commands, doing, procVars, crashes, stalls>>

\* ASK_HUMAN and REQUEST_APPROVAL, whose Attention names no authorization.
DecideAsk(w, kind, state) ==
  /\ pc[w] = "deciding"
  /\ RaiseAndPark(w, kind, None, [Decided(w) EXCEPT !.sess = loc[w].cur], state)
  /\ UNCHANGED <<jobVars, wf, attempt, session, commands, doing, procVars,
                 crashes, stalls>>

Park(w) ==
  /\ pc[w] = "parking"
  /\ wf' = Row(loc[w], loc[w].park)
  /\ Goto(w, "done")
  /\ UNCHANGED <<jobVars, attempt, session, att, commands, doing, loc, procVars,
                 crashes, stalls>>

-----------------------------------------------------------------------------
(* The end of a cycle, and what happens to workers and executors.            *)

AnyRunning(j, w) == job[j].status = "RUNNING"
Holds(j, w) == job[j].status = "RUNNING" /\ job[j].holder = w

\* completeJob or failJob.  A job whose lease ran out may end FAILED although
\* the handler returned.
Settle(w) ==
  /\ pc[w] \in {"done", "failing"}
  /\ LET j == doing[w]
         ends == {"FAILED"} \cup IF pc[w] = "done" THEN {"COMPLETED"} ELSE {}
     IN IF Holds(j, w)
        THEN /\ \E end \in ends :
                  /\ pc[w] = "done" /\ end = "FAILED" => j \in lapsed
                  /\ job' = [job EXCEPT ![j].status = end, ![j].holder = None]
             /\ lapsed' = lapsed \ {j}
        ELSE UNCHANGED jobVars
  /\ doing' = [doing EXCEPT ![w] = None]
  /\ loc' = [loc EXCEPT ![w] = Fresh]
  /\ Goto(w, "idle")
  /\ UNCHANGED <<rowVars, commands, procVars, crashes, stalls>>

\* The worker dies; its executor may survive it.
Crash(w) ==
  /\ pc[w] # "idle" /\ crashes < MaxCrashes
  /\ crashes' = crashes + 1
  /\ doing' = [doing EXCEPT ![w] = None]
  /\ loc' = [loc EXCEPT ![w] = Fresh]
  /\ Goto(w, "idle")
  /\ UNCHANGED <<jobVars, rowVars, commands, procVars, stalls>>

\* An executor nobody reads from any more ends.
OrphanExits(a) ==
  /\ a \in procs
  /\ \A w \in Workers : pc[w] = "executing" => loc[w].att # a
  /\ procs' = procs \ {a}
  /\ UNCHANGED <<jobVars, rowVars, commands, pc, doing, loc, launches, launchedBy,
                 crashes, stalls>>

\* A lease runs out: always when its worker is gone, otherwise for a stall.
Abandoned(j) == job[j].status = "RUNNING" /\ \A w \in Workers : doing[w] # j

LapseDead(j) ==
  /\ Abandoned(j) /\ j \notin lapsed
  /\ lapsed' = lapsed \cup {j}
  /\ UNCHANGED <<job, rowVars, commands, pc, doing, loc, procVars, crashes, stalls>>

LapseLive(j) ==
  /\ job[j].status = "RUNNING" /\ ~Abandoned(j) /\ j \notin lapsed
  /\ stalls < MaxStalls
  /\ stalls' = stalls + 1
  /\ lapsed' = lapsed \cup {j}
  /\ UNCHANGED <<job, rowVars, commands, pc, doing, loc, procVars, crashes>>

-----------------------------------------------------------------------------
Cycle(w) ==
  \/ \E s \in DOMAIN session : MarkLost(w, s)
  \/ Reconciled(w) \/ NoJob(w) \/ \E j \in JobIds : Claim(w, j)
  \/ Skip(w) \/ Recover(w) \/ RefuseTask(w) \/ RunTask(w)
  \/ ResumeWorkflow(w) \/ RefuseResume(w) \/ Deny(w)
  \/ NoExecutor(w) \/ Match(w) \/ StartAttempt(w) \/ Exhaust(w)
  \/ Launch(w) \/ Announce(w) \/ ExecutorFails(w)
  \/ \E auth \in Auths \cup {None} : AskPermission(w, auth)
  \/ \E res \in {"PASS", "FAIL"} : Finish(w, res)
  \/ Verify(w) \/ DecisionFails(w)
  \/ \E state \in {"COMPLETED", "PAUSED", "VERIFYING", "FAILED"} :
       DecideState(w, state)
  \/ DecideLoop(w, loc[w].cur) \/ DecideLoop(w, 0)
  \/ DecideAsk(w, "DECISION", "WAITING_FOR_HUMAN")
  \/ DecideAsk(w, "APPROVAL", "WAITING_FOR_APPROVAL")
  \/ Park(w) \/ Settle(w)

OperatorKeys == {"key"} \X (1..Keys)

Inputs ==
  \/ \E n \in 1..Tasks : TaskEvent(n)
  \/ \E n \in 1..Schedules : Occurrence(n)
  \/ \E n \in 1..Triggers : Trigger(n)
  \/ \E j \in {<<"resume", 0>>} \cup OperatorKeys : OperatorResume(j)
  \/ \E i \in 1..MaxAsked : \E key \in {<<"att", i>>} \cup OperatorKeys :
       \E type \in JobTypes : ReadAttention(i, type, key)
  \/ \E c \in commands : Respond(c)

Next ==
  \/ Inputs
  \/ \E w \in Workers : Cycle(w) \/ Crash(w)
  \/ \E a \in procs : OrphanExits(a)
  \/ \E j \in JobIds : LapseDead(j) \/ LapseLive(j)

Spec == Init /\ [][Next]_vars

(* A worker that lives takes its next step, a dead worker's lease runs out,  *)
(* and an operator command that has begun ends.                              *)
Fairness ==
  /\ \A w \in Workers : WF_vars(Cycle(w))
  /\ \A j \in JobIds : WF_vars(LapseDead(j))
  /\ WF_vars(\E c \in commands : Respond(c))

FairSpec == Spec /\ Fairness

-----------------------------------------------------------------------------
(* Properties.                                                               *)

\* Across retries, stops, resumes, crashes and recoveries, one run of a task
\* launches its executor at most MaxAttempts times.  (#execute's budget)
BudgetHonoured == launches <= MaxAttempts

Launched(j) == {n \in 1..job[j].tries : <<j, n>> \in launchedBy}

\* A task job that launched an executor before its worker crashed launches
\* none when it is claimed again.  (createRuntimeJobHandler's RECOVERY path)
NoBlindRedispatch ==
  \A j \in {"task"} \X (1..Tasks) : Cardinality(Launched(j)) <= 1

\* The task carries no authorization beyond its contract but those an operator
\* granted, each on an APPROVAL Attention that names it.  (daemon.resume)
GrantOnlyNamed ==
  wf.grants \subseteq
    {att[i].auth : i \in {k \in DOMAIN att : /\ att[k].kind = "APPROVAL"
                                             /\ att[k].answer = "approval.granted"}}

Askable(i) == att[i].kind \in {"DECISION", "APPROVAL", "SECURITY"}

\* The workflow is parked on Attention i: the newest that asks something.
WaitsOn(i) ==
  /\ wf.state \in {"WAITING_FOR_HUMAN", "WAITING_FOR_APPROVAL"}
  /\ Askable(i) /\ \A k \in DOMAIN att : k > i => ~Askable(k)

\* Attentions whose answers all have an effect: all but the approval a decision
\* asked for, whose grant daemon.resume refuses (ApprovalResumes).
Answerable(i) == att[i].kind = "APPROVAL" => att[i].auth # None

Underway(i) ==
  \E j \in JobIds : job[j].att = i /\ job[j].status \in {"PENDING", "RUNNING"}

\* A workflow parked on a question is never stranded: the question is open, or
\* its answer is still queued or in work, whatever crashed in between.
\* (respondToAttention, daemon.resume, createRuntimeJobHandler)
WaitIsAnswerable ==
  \A i \in DOMAIN att :
    i <= MaxAsked /\ WaitsOn(i) /\ Answerable(i) => att[i].open \/ Underway(i)

\* An answered question does not keep the workflow parked.  (respondToAttention
\* to daemon.resume, over crashes and restarts)
AnswerWakes ==
  \A i \in 1..MaxAsked :
    (i \in DOMAIN att /\ WaitsOn(i) /\ Answerable(i) /\ ~att[i].open)
      ~> ~(i \in DOMAIN att /\ WaitsOn(i))

Phase(j) ==
  CASE job[j].status = "ABSENT" -> "absent"
    [] job[j].status \in {"PENDING", "RUNNING"} -> "open"
    [] OTHER -> "settled"

\* The queue this module assumes is the one RuntimeService implements.
Queue == INSTANCE JobLedger WITH
  Jobs   <- JobIds,
  phase  <- [j \in JobIds |-> Phase(j)],
  holder <- [j \in JobIds |-> job[j].holder],
  lapsed <- lapsed,
  doing  <- doing

\* Every step of a worker uses the job table as JobLedger allows: what is
\* assumed here of claims and settlements is what RuntimeService implements.
QueueSpec == Queue!Spec

\* docs/information-flow.md:9: replies and approvals become idempotent jobs, so
\* process restarts cannot duplicate a continuation.
OneContinuation ==
  \A j \in {"att"} \X (1..MaxAsked) : Cardinality(Launched(j)) <= 1

\* docs/architecture.md:11: an approval can resume the workflow it stopped. The
\* grant of the Attention a workflow is parked on is never refused.
ApprovalResumes ==
  [][\A w \in Workers :
       pc[w] = "claimed" /\ pc'[w] = "failing" /\ Type(w) = "approval.granted"
         => ~WaitsOn(job[doing[w]].att)]_vars

=============================================================================
