------------------------ MODULE WorkflowDaemonProofs ------------------------
(***************************************************************************)
(* Proofs about WorkflowDaemon, for any workers, authorizations, budgets   *)
(* and bounds, stalled and crashing workers included: the rows keep their  *)
(* types and budgets, authority comes only from granted Attentions, and    *)
(* the job table is used as JobLedger, which RuntimeService implements,    *)
(* allows.                                                                 *)
(***************************************************************************)
EXTENDS WorkflowDaemon, TLAPS

InLoop == {"launching", "executing", "judging", "deciding"}
Free == {"idle", "polling"}

\* A worker has a job from its claim to the end of its cycle.
BusyInv ==
  \A w \in Workers : IF pc[w] \in Free THEN doing[w] = None ELSE doing[w] \in JobIds

\* Inside the loop an action is left to decide on, and the attempt has its row.
LoopInv ==
  \A w \in Workers :
    /\ pc[w] \in InLoop => loc[w].acts < MaxActions
    /\ pc[w] \in {"launching", "executing"} => loc[w].att \in 1..Len(attempt)

\* A command answers an Attention it has read.
CommandInv == \A c \in commands : c.att \in 1..Len(att)

IInv == TypeOK /\ BusyInv /\ LoopInv /\ CommandInv

-----------------------------------------------------------------------------
(* The parts of the state.                                                   *)

LEMMA FreshType == Fresh \in Locals
  BY BudgetAssumption DEF Fresh, Locals, States, Terminal, Parked

LEMMA RowType ==
  ASSUME NEW l \in Locals, NEW s \in States
  PROVE  /\ Row(l, s) \in WorkflowRow /\ Row(l, s).grants = l.grants /\ Row(l, s).state = s
  BY DEF Row, Locals, WorkflowRow

LEMMA RestoreType ==
  ASSUME NEW row \in WorkflowRow
  PROVE  Restore(row) \in Locals /\ Restore(row).grants = row.grants
  BY FreshType DEF Restore, Locals, WorkflowRow

LEMMA NoticeType ==
  ASSUME NEW kind \in {"DECISION", "APPROVAL", "SECURITY", "RECOVERY", "FAILURE", "CAPABILITY"},
         NEW auth \in Auths \cup {None}, NEW j \in JobIds \cup {None}
  PROVE  Notice(kind, auth, j) \in AttentionRow
  BY DEF Notice, AttentionRow

\* A new notice leaves the old ones as they are.
LEMMA AppendNotice ==
  ASSUME att \in Seq(AttentionRow), NEW n \in AttentionRow, att' = Append(att, n)
  PROVE  /\ att' \in Seq(AttentionRow) /\ Len(att') = Len(att) + 1 /\ Len(att) \in Nat
         /\ \A i \in 1..Len(att) : att'[i] = att[i]
         /\ att'[Len(att) + 1] = n
  OBVIOUS

LEMMA SeqExcept ==
  ASSUME NEW S, NEW q \in Seq(S), NEW x, NEW v \in S
  PROVE  [q EXCEPT ![x] = v] \in Seq(S) /\ Len([q EXCEPT ![x] = v]) = Len(q)
  <1>1. q \in [1..Len(q) -> S] /\ Len(q) \in Nat
        OBVIOUS
  <1>2. [q EXCEPT ![x] = v] \in [1..Len(q) -> S]
        BY <1>1
  <1> QED BY <1>1, <1>2

LEMMA JobIdsType ==
  /\ \A n \in 1..Tasks : <<"task", n>> \in JobIds
  /\ \A n \in 1..Schedules : <<"sched", n>> \in JobIds
  /\ \A n \in 1..Triggers : <<"event", n>> \in JobIds
  /\ \A n \in 1..MaxAsked : <<"att", n>> \in JobIds
  /\ <<"resume", 0>> \in JobIds
  /\ OperatorKeys \subseteq JobIds
  BY DEF JobIds, OperatorKeys

LEMMA InsertType ==
  ASSUME job \in [JobIds -> JobRow], NEW j \in JobIds, NEW t \in JobTypes, NEW i \in Nat,
         Insert(j, t, i)
  PROVE  /\ job' \in [JobIds -> JobRow]
         /\ \A k \in JobIds \ {j} : job'[k] = job[k]
         /\ \/ job' = job
            \/ /\ job[j].status = "ABSENT"
               /\ job'[j] = [type |-> t, status |-> "PENDING", tries |-> 0, att |-> i,
                             holder |-> None]
  <1>1. [type |-> t, status |-> "PENDING", tries |-> 0, att |-> i, holder |-> None] \in JobRow
        BY DEF JobRow
  <1> QED BY <1>1 DEF Insert

-----------------------------------------------------------------------------
(* Types.                                                                    *)

LEMMA InitTypes == Init => IInv
  <1> SUFFICES ASSUME Init PROVE IInv
      OBVIOUS
  <1>1. [type |-> "none", status |-> "ABSENT", tries |-> 0, att |-> 0, holder |-> None] \in JobRow
        BY DEF JobRow
  <1>2. wf \in WorkflowRow
        BY FreshType, RowType DEF Init, States
  <1>3. /\ attempt \in Seq({"RUNNING", "BLOCKED", "PASS", "FAIL"}) /\ Len(attempt) = 0
        /\ session \in Seq(SessionRow) /\ Len(session) = 0
        /\ att \in Seq(AttentionRow)
        BY DEF Init
  <1>4. /\ job \in [JobIds -> JobRow] /\ loc \in [Workers -> Locals]
        /\ pc \in [Workers -> Pcs] /\ doing \in [Workers -> JobIds \cup {None}]
        BY <1>1, FreshType DEF Init, Pcs
  <1>5. /\ lapsed \subseteq JobIds /\ commands = {} /\ procs = {}
        /\ launches = 0 /\ launchedBy = {} /\ crashes = 0 /\ stalls = 0
        BY DEF Init
  <1>6. TypeOK
        BY <1>2, <1>3, <1>4, <1>5, CountAssumption DEF TypeOK
  <1>7. BusyInv /\ LoopInv /\ CommandInv
        BY <1>5 DEF Init, BusyInv, LoopInv, CommandInv, Free, InLoop
  <1> QED BY <1>6, <1>7 DEF IInv

(* A step of one worker between its claim and its end: whatever rows it      *)
(* writes, the job table and the other workers are not concerned.            *)
RowsTyped ==
  /\ wf' \in WorkflowRow
  /\ attempt' \in Seq({"RUNNING", "BLOCKED", "PASS", "FAIL"}) /\ Len(attempt') >= Len(attempt)
  /\ session' \in Seq(SessionRow) /\ Len(session') = Len(attempt')
  /\ att' \in Seq(AttentionRow) /\ Len(att') >= Len(att)
  /\ procs' \subseteq 1..Len(attempt')
  /\ launches' \in Nat
  /\ launchedBy' \subseteq JobIds \X Nat

LEMMA RowStep ==
  ASSUME IInv, NEW w \in Workers, pc[w] \notin Free,
         NEW label \in Pcs \ Free, Goto(w, label),
         NEW l \in Locals, loc' = [loc EXCEPT ![w] = l],
         RowsTyped, UNCHANGED <<jobVars, commands, doing, crashes, stalls>>,
         label \in InLoop => l.acts < MaxActions,
         label \in {"launching", "executing"} => l.att \in 1..Len(attempt')
  PROVE  IInv'
  <1>1. /\ pc' \in [Workers -> Pcs] /\ pc'[w] = label
        /\ \A x \in Workers \ {w} : pc'[x] = pc[x]
        BY DEF IInv, TypeOK, Goto
  <1>2. /\ loc' \in [Workers -> Locals] /\ loc'[w] = l
        /\ \A x \in Workers \ {w} : loc'[x] = loc[x]
        BY DEF IInv, TypeOK
  <1>3. TypeOK'
        BY <1>1, <1>2 DEF IInv, TypeOK, RowsTyped, jobVars
  <1>4. BusyInv'
        BY <1>1 DEF IInv, BusyInv, Free
  <1>5. \A n \in 1..Len(attempt) : n \in 1..Len(attempt')
        BY DEF RowsTyped, IInv, TypeOK
  <1>6. LoopInv'
        BY <1>1, <1>2, <1>5 DEF IInv, LoopInv, InLoop
  <1>7. \A n \in 1..Len(att) : n \in 1..Len(att')
        BY DEF RowsTyped, IInv, TypeOK
  <1>8. CommandInv'
        BY <1>7 DEF IInv, CommandInv
  <1> QED BY <1>3, <1>4, <1>6, <1>8 DEF IInv

LEMMA SameLocals ==
  ASSUME TypeOK, NEW w \in Workers, loc' = loc
  PROVE  loc[w] \in Locals /\ loc' = [loc EXCEPT ![w] = loc[w]]
  BY DEF TypeOK

LEMMA SameRows ==
  ASSUME TypeOK, UNCHANGED <<wf, attempt, session, att, procs, launches, launchedBy>>
  PROVE  RowsTyped
  BY DEF TypeOK, RowsTyped

\* A step that only enqueues a job, or answers an Attention and enqueues it.
LEMMA InsertStep ==
  ASSUME IInv, NEW j \in JobIds, NEW t \in JobTypes, NEW i \in Nat, Insert(j, t, i),
         att' \in Seq(AttentionRow), Len(att') = Len(att), commands' \subseteq commands,
         UNCHANGED <<lapsed, wf, attempt, session, pc, doing, loc, procVars, crashes, stalls>>
  PROVE  IInv'
  <1>1. job' \in [JobIds -> JobRow]
        BY InsertType DEF IInv, TypeOK
  <1>2. TypeOK'
        BY <1>1 DEF IInv, TypeOK, procVars
  <1> QED BY <1>2 DEF IInv, BusyInv, LoopInv, CommandInv

LEMMA InputTypes ==
  ASSUME IInv, Inputs
  PROVE  IInv'
  <1>1. att \in Seq(AttentionRow) /\ commands \subseteq Command
        BY DEF IInv, TypeOK
  <1>2. ASSUME NEW j \in JobIds, NEW t \in JobTypes, Insert(j, t, 0),
               UNCHANGED <<lapsed, rowVars, commands, pc, doing, loc, procVars, crashes, stalls>>
        PROVE  IInv'
        BY <1>1, <1>2, InsertStep DEF rowVars
  <1>3. ASSUME NEW n \in 1..Tasks, TaskEvent(n) PROVE IInv'
        BY <1>2, <1>3, JobIdsType DEF TaskEvent, JobTypes
  <1>4. ASSUME NEW n \in 1..Schedules, Occurrence(n) PROVE IInv'
        BY <1>2, <1>4, JobIdsType DEF Occurrence, JobTypes
  <1>5. ASSUME NEW n \in 1..Triggers, Trigger(n) PROVE IInv'
        BY <1>2, <1>5, JobIdsType DEF Trigger, JobTypes, ResumeTypes
  <1>6. ASSUME NEW j \in {<<"resume", 0>>} \cup OperatorKeys, OperatorResume(j) PROVE IInv'
        BY <1>2, <1>6, JobIdsType DEF OperatorResume, JobTypes, ResumeTypes
  <1>7. ASSUME NEW i \in 1..MaxAsked, NEW key \in {<<"att", i>>} \cup OperatorKeys,
               NEW t \in JobTypes, ReadAttention(i, t, key)
        PROVE  IInv'
    <2>1. [att |-> i, type |-> t, key |-> key] \in Command
          BY JobIdsType DEF Command
    <2>2. i \in 1..Len(att)
          BY <1>1, <1>7 DEF ReadAttention
    <2>3. commands' = commands \cup {[att |-> i, type |-> t, key |-> key]}
          BY <1>7 DEF ReadAttention
    <2>4. TypeOK'
          BY <1>7, <2>1, <2>3 DEF ReadAttention, IInv, TypeOK, jobVars, rowVars, procVars
    <2>5. CommandInv'
          BY <1>7, <2>2, <2>3 DEF ReadAttention, IInv, CommandInv, rowVars
    <2> QED BY <1>7, <2>4, <2>5 DEF ReadAttention, IInv, BusyInv, LoopInv, rowVars
  <1>8. ASSUME NEW c \in commands, Respond(c) PROVE IInv'
    <2>1. c.att \in 1..Len(att) /\ c \in Command
          BY <1>1 DEF IInv, CommandInv
    <2>2. c.att \in Nat /\ c.type \in JobTypes /\ c.key \in JobIds
          BY <2>1 DEF Command
    <2>3. [att[c.att] EXCEPT !.open = FALSE, !.answer = c.type] \in AttentionRow
      <3>1. att[c.att] \in AttentionRow
            BY <1>1, <2>1
      <3> QED BY <2>2, <3>1 DEF AttentionRow
    <2>4. [att EXCEPT ![c.att].open = FALSE, ![c.att].answer = c.type] =
            [att EXCEPT ![c.att] = [att[c.att] EXCEPT !.open = FALSE, !.answer = c.type]]
          BY <1>1, <2>1
    <2>5. /\ [att EXCEPT ![c.att] = [att[c.att] EXCEPT !.open = FALSE, !.answer = c.type]]
               \in Seq(AttentionRow)
          /\ Len([att EXCEPT ![c.att] = [att[c.att] EXCEPT !.open = FALSE, !.answer = c.type]])
               = Len(att)
          BY <1>1, <2>1, <2>3
    <2>6. att' \in Seq(AttentionRow) /\ Len(att') = Len(att)
          BY <1>1, <1>8, <2>4, <2>5 DEF Respond
    <2>7. Insert(c.key, c.type, c.att) /\ commands' \subseteq commands
          BY <1>8 DEF Respond
    <2> QED BY <1>8, <2>2, <2>6, <2>7, InsertStep DEF Respond
  <1> QED BY <1>3, <1>4, <1>5, <1>6, <1>7, <1>8 DEF Inputs

\* A worker that has no job, or ends with the one it has.
LEMMA IdleTypes ==
  ASSUME IInv, NEW w \in Workers,
         \/ \E s \in DOMAIN session : MarkLost(w, s)
         \/ Reconciled(w) \/ NoJob(w) \/ \E j \in JobIds : Claim(w, j)
         \/ Settle(w) \/ Crash(w)
  PROVE  IInv'
  <1>0. TypeOK
        BY DEF IInv
  <1>1. ASSUME NEW s \in DOMAIN session, MarkLost(w, s) PROVE IInv'
    <2>1. /\ session' \in Seq(SessionRow) /\ Len(session') = Len(session)
      <3>0. session[s] \in SessionRow
            BY <1>0 DEF TypeOK
      <3>1. [session[s] EXCEPT !.running = FALSE] \in SessionRow
            BY <3>0 DEF SessionRow
      <3>2. session' = [session EXCEPT ![s] = [session[s] EXCEPT !.running = FALSE]]
            BY <1>0, <1>1 DEF MarkLost, TypeOK
      <3> QED BY <1>0, <3>1, <3>2 DEF TypeOK
    <2>2. /\ attempt' \in Seq({"RUNNING", "BLOCKED", "PASS", "FAIL"})
          /\ Len(attempt') = Len(attempt)
      <3>1. attempt \in Seq({"RUNNING", "BLOCKED", "PASS", "FAIL"})
            BY <1>0 DEF TypeOK
      <3>2. attempt' = attempt \/ attempt' = [attempt EXCEPT ![session[s].head] = "FAIL"]
            BY <1>1 DEF MarkLost
      <3> QED BY <3>1, <3>2, SeqExcept
    <2>3. wf' \in WorkflowRow
      <3>1. [wf EXCEPT !.state = "FAILED"] \in WorkflowRow
            BY <1>0 DEF TypeOK, WorkflowRow, States, Terminal
      <3> QED BY <1>0, <1>1, <3>1 DEF MarkLost, TypeOK
    <2>4. att' \in Seq(AttentionRow) /\ Len(att') >= Len(att)
      <3>1. Notice("FAILURE", None, None) \in AttentionRow
            BY NoticeType
      <3>2. att' = att \/ att' = Append(att, Notice("FAILURE", None, None))
            BY <1>1 DEF MarkLost, Raise
      <3>3. att \in Seq(AttentionRow)
            BY <1>0 DEF TypeOK
      <3>4. Len(att) \in Nat
            BY <3>3
      <3>5. CASE att' = att
            BY <3>3, <3>4, <3>5
      <3>6. CASE att' = Append(att, Notice("FAILURE", None, None))
            BY <3>1, <3>3, <3>4, <3>6, AppendNotice
      <3> QED BY <3>2, <3>5, <3>6
    <2>5. TypeOK'
          BY <1>0, <1>1, <2>1, <2>2, <2>3, <2>4 DEF MarkLost, TypeOK, jobVars, procVars
    <2>6. CommandInv'
      <3>1. \A n \in 1..Len(att) : n \in 1..Len(att')
            BY <1>0, <2>4 DEF TypeOK
      <3> QED BY <1>1, <3>1 DEF MarkLost, IInv, CommandInv
    <2> QED BY <1>1, <2>2, <2>5, <2>6 DEF MarkLost, IInv, BusyInv, LoopInv
  <1>2. CASE Reconciled(w) \/ NoJob(w)
    <2>1. \E label \in Free : Goto(w, label) /\ pc[w] \in Free
          BY <1>2 DEF Reconciled, NoJob, Free
    <2>2. UNCHANGED <<jobVars, rowVars, commands, doing, loc, procVars, crashes, stalls>>
          BY <1>2 DEF Reconciled, NoJob
    <2>3. TypeOK'
          BY <1>0, <2>1, <2>2 DEF TypeOK, Goto, Free, Pcs, jobVars, rowVars, procVars
    <2>4. /\ pc'[w] \in Free /\ \A x \in Workers \ {w} : pc'[x] = pc[x]
          BY <1>0, <2>1 DEF TypeOK, Goto
    <2>5. BusyInv'
          BY <2>1, <2>2, <2>4 DEF IInv, BusyInv
    <2>6. LoopInv'
          BY <2>2, <2>4 DEF IInv, LoopInv, InLoop, Free, rowVars
    <2> QED BY <2>2, <2>3, <2>5, <2>6 DEF IInv, CommandInv, rowVars
  <1>3. ASSUME NEW j \in JobIds, Claim(w, j) PROVE IInv'
    <2>1. job' \in [JobIds -> JobRow]
      <3>0. job[j] \in JobRow
            BY <1>0 DEF TypeOK
      <3>a. job[j].tries + 1 \in Nat
            BY <3>0 DEF JobRow
      <3>1. [job[j] EXCEPT !.status = "RUNNING", !.holder = w, !.tries = @ + 1] \in JobRow
            BY <3>0, <3>a DEF JobRow
      <3>2. job' = [job EXCEPT ![j] =
                      [job[j] EXCEPT !.status = "RUNNING", !.holder = w, !.tries = @ + 1]]
            BY <1>0, <1>3 DEF Claim, TypeOK
      <3> QED BY <1>0, <3>1, <3>2 DEF TypeOK
    <2>2. /\ pc' = [pc EXCEPT ![w] = "claimed"] /\ doing' = [doing EXCEPT ![w] = j]
          /\ lapsed' = lapsed \ {j}
          /\ UNCHANGED <<rowVars, commands, loc, procVars, crashes, stalls>>
          BY <1>3 DEF Claim, Goto
    <2>3. TypeOK'
          BY <1>0, <2>1, <2>2 DEF TypeOK, Pcs, rowVars, procVars
    <2>4. BusyInv'
          BY <1>0, <2>2 DEF IInv, BusyInv, Free, TypeOK
    <2>5. LoopInv'
          BY <1>0, <2>2 DEF IInv, LoopInv, InLoop, TypeOK, rowVars
    <2> QED BY <2>2, <2>3, <2>4, <2>5 DEF IInv, CommandInv, rowVars
  <1>4. CASE Settle(w) \/ Crash(w)
    <2>1. /\ pc' = [pc EXCEPT ![w] = "idle"] /\ doing' = [doing EXCEPT ![w] = None]
          /\ loc' = [loc EXCEPT ![w] = Fresh]
          /\ UNCHANGED <<rowVars, commands, procVars, stalls>>
          BY <1>4 DEF Settle, Crash, Goto
    <2>2. job' \in [JobIds -> JobRow] /\ lapsed' \subseteq JobIds /\ crashes' \in 0..MaxCrashes
      <3>1. CASE Crash(w)
            BY <1>0, <3>1, CountAssumption DEF Crash, TypeOK, jobVars
      <3>2. CASE Settle(w) /\ UNCHANGED jobVars
            BY <1>0, <3>2 DEF Settle, TypeOK, jobVars
      <3>3. CASE Settle(w) /\ Holds(doing[w], w)
        <4> DEFINE j == doing[w]
        <4>1. j \in JobIds
              BY <3>3 DEF Settle, IInv, BusyInv, Free
        <4>2. PICK end \in {"FAILED", "COMPLETED"} :
                job' = [job EXCEPT ![j].status = end, ![j].holder = None]
              BY <3>3 DEF Settle
        <4>0. job[j] \in JobRow
              BY <1>0, <4>1 DEF TypeOK
        <4>3. [job[j] EXCEPT !.status = end, !.holder = None] \in JobRow
              BY <4>0 DEF JobRow
        <4>4. job' = [job EXCEPT ![j] = [job[j] EXCEPT !.status = end, !.holder = None]]
              BY <1>0, <4>1, <4>2 DEF TypeOK
        <4>5. lapsed' \subseteq lapsed /\ crashes' = crashes
              BY <3>3 DEF Settle
        <4> QED BY <1>0, <4>1, <4>3, <4>4, <4>5 DEF TypeOK
      <3> QED BY <1>4, <3>1, <3>2, <3>3 DEF Settle
    <2>3. TypeOK'
          BY <1>0, <2>1, <2>2, FreshType DEF TypeOK, Pcs, rowVars, procVars
    <2>4. BusyInv'
          BY <1>0, <2>1 DEF IInv, BusyInv, Free, TypeOK
    <2>5. LoopInv'
          BY <1>0, <2>1 DEF IInv, LoopInv, InLoop, TypeOK, rowVars
    <2> QED BY <2>1, <2>3, <2>4, <2>5 DEF IInv, CommandInv, rowVars
  <1> QED BY <1>1, <1>2, <1>3, <1>4

LEMMA ParkType ==
  ASSUME NEW l \in Locals, NEW s \in States
  PROVE  [l EXCEPT !.park = s] \in Locals /\ [l EXCEPT !.park = s].grants = l.grants
  BY DEF Locals

LEMMA RaiseType ==
  ASSUME TypeOK, NEW kind, NEW auth \in Auths \cup {None}, Raise(kind, auth),
         kind \in {"DECISION", "APPROVAL", "SECURITY", "RECOVERY", "FAILURE", "CAPABILITY"}
  PROVE  /\ att' \in Seq(AttentionRow) /\ Len(att') = Len(att) + 1
         /\ Len(att) \in Nat /\ Len(att') >= Len(att)
  <1>1. Notice(kind, auth, None) \in AttentionRow
        BY NoticeType
  <1>2. att \in Seq(AttentionRow) /\ att' = Append(att, Notice(kind, auth, None))
        BY DEF TypeOK, Raise
  <1>3. att' \in Seq(AttentionRow) /\ Len(att') = Len(att) + 1 /\ Len(att) \in Nat
        BY <1>1, <1>2, AppendNotice
  <1> QED BY <1>3

LEMMA CloseType ==
  ASSUME TypeOK, NEW w \in Workers, NEW out \in {"BLOCKED", "PASS", "FAIL"}, CloseAttempt(w, out)
  PROVE  /\ attempt' \in Seq({"RUNNING", "BLOCKED", "PASS", "FAIL"})
         /\ Len(attempt') = Len(attempt) /\ Len(attempt) \in Nat
         /\ session' \in Seq(SessionRow) /\ Len(session') = Len(attempt')
  <1>1. /\ attempt \in Seq({"RUNNING", "BLOCKED", "PASS", "FAIL"})
        /\ session \in Seq(SessionRow) /\ Len(session) = Len(attempt)
        BY DEF TypeOK
  <1>2. attempt' = [attempt EXCEPT ![loc[w].att] = out]
        BY DEF CloseAttempt
  <1>3. attempt' \in Seq({"RUNNING", "BLOCKED", "PASS", "FAIL"}) /\ Len(attempt') = Len(attempt)
    <2> DEFINE S == {"RUNNING", "BLOCKED", "PASS", "FAIL"}
    <2>1. attempt \in Seq(S) /\ out \in S
          BY <1>1
    <2> HIDE DEF S
    <2>2. \A x : [attempt EXCEPT ![x] = out] \in Seq(S) /\ Len([attempt EXCEPT ![x] = out]) = Len(attempt)
          BY <2>1, SeqExcept
    <2>3. attempt' \in Seq(S) /\ Len(attempt') = Len(attempt)
          BY <1>2, <2>2
    <2> QED BY <2>3 DEF S
  <1>4. ASSUME NEW s \in 1..Len(session)
        PROVE  [session[s] EXCEPT !.running = @ /\ s # loc[w].cur] \in SessionRow
    <2>1. session[s] \in SessionRow
          BY <1>1
    <2>2. (session[s].running /\ s # loc[w].cur) \in BOOLEAN
          OBVIOUS
    <2> QED BY <2>1, <2>2 DEF SessionRow
  <1>5. session' \in [1..Len(session) -> SessionRow]
        BY <1>1, <1>4 DEF CloseAttempt, EndSession
  <1>6. session' \in Seq(SessionRow) /\ Len(session') = Len(session)
        BY <1>1, <1>5
  <1> QED BY <1>1, <1>3, <1>6

(* The handler, up to the loop.                                              *)
LEMMA HandlerTypes ==
  ASSUME IInv, NEW w \in Workers,
         \/ Skip(w) \/ Recover(w) \/ RefuseTask(w) \/ RunTask(w)
         \/ ResumeWorkflow(w) \/ RefuseResume(w) \/ Deny(w)
         \/ Match(w) \/ DecisionFails(w)
  PROVE  IInv'
  <1>0. TypeOK /\ loc[w] \in Locals /\ wf \in WorkflowRow
        BY DEF IInv, TypeOK
  <1>1. CASE Skip(w) \/ RefuseTask(w) \/ RefuseResume(w) \/ Match(w) \/ DecisionFails(w)
    <2>1. PICK label \in {"done", "failing", "looping"} : Goto(w, label)
          BY <1>1 DEF Skip, RefuseTask, RefuseResume, Match, DecisionFails
    <2>2. /\ pc[w] \notin Free
          /\ UNCHANGED <<jobVars, rowVars, commands, doing, loc, procVars, crashes, stalls>>
          BY <1>1 DEF Skip, RefuseTask, RefuseResume, Match, DecisionFails, Free
    <2>3. RowsTyped
          BY <1>0, <2>2, SameRows DEF rowVars, procVars
    <2>4. label \in Pcs \ Free /\ label \notin InLoop
          BY DEF Pcs, Free, InLoop
    <2>5. loc' = [loc EXCEPT ![w] = loc[w]]
          BY <1>0, <2>2, SameLocals
    <2> QED BY <1>0, <2>1, <2>2, <2>3, <2>4, <2>5, RowStep DEF InLoop
  <1>2. CASE Recover(w)
    <2> DEFINE l == [Restore(wf) EXCEPT !.park = "PAUSED"]
    <2>1. l \in Locals
          BY <1>0, RestoreType, ParkType DEF States, Parked
    <2>2. att' \in Seq(AttentionRow) /\ Len(att') >= Len(att)
      <3>0. att \in Seq(AttentionRow) /\ Len(att) \in Nat
            BY <1>0 DEF TypeOK
      <3>1. doing[w] \in JobIds
            BY <1>2 DEF IInv, BusyInv, Recover, Free
      <3>2. Notice("RECOVERY", None, doing[w]) \in AttentionRow
            BY <3>1, NoticeType
      <3>3. att' = att \/ att' = Append(att, Notice("RECOVERY", None, doing[w]))
            BY <1>2 DEF Recover
      <3>4. CASE att' = att
            BY <3>0, <3>4
      <3>5. CASE att' = Append(att, Notice("RECOVERY", None, doing[w]))
            BY <3>0, <3>2, <3>5, AppendNotice
      <3> QED BY <3>3, <3>4, <3>5
    <2>3. RowsTyped
          BY <1>0, <1>2, <2>2 DEF Recover, RowsTyped, TypeOK, procVars
    <2>4. /\ Goto(w, "parking") /\ pc[w] \notin Free /\ loc' = [loc EXCEPT ![w] = l]
          /\ UNCHANGED <<jobVars, commands, doing, crashes, stalls>>
          BY <1>2 DEF Recover, Free
    <2>5. "parking" \in Pcs \ Free /\ "parking" \notin InLoop
          BY DEF Pcs, Free, InLoop
    <2> HIDE DEF l
    <2> QED BY <2>1, <2>3, <2>4, <2>5, RowStep DEF InLoop
  <1>3. CASE RunTask(w)
    <2>1. PICK label \in {"matching", "failing", "done"} : Goto(w, label)
          BY <1>3 DEF RunTask
    <2>2. Row(Fresh, "RUNNING") \in WorkflowRow
          BY FreshType, RowType DEF States
    <2>3. RowsTyped
          BY <1>0, <1>3, <2>2 DEF RunTask, RowsTyped, TypeOK
    <2>4. /\ pc[w] \notin Free /\ loc' = [loc EXCEPT ![w] = Fresh]
          /\ UNCHANGED <<jobVars, commands, doing, crashes, stalls>>
          BY <1>3 DEF RunTask, Free
    <2>5. label \in Pcs \ Free /\ label \notin InLoop
          BY DEF Pcs, Free, InLoop
    <2> QED BY <2>1, <2>3, <2>4, <2>5, FreshType, RowStep DEF InLoop
  <1>4. CASE ResumeWorkflow(w)
    <2> DEFINE new == IF Type(w) = "approval.granted" THEN Granted(job[doing[w]].att) ELSE {}
               l == [Restore(wf) EXCEPT !.grants = @ \cup new]
    <2>1. new \subseteq Auths
          BY DEF Granted
    <2>2. l \in Locals
          BY <1>0, <2>1, RestoreType DEF Locals
    <2>3. /\ Goto(w, "matching") /\ pc[w] \notin Free /\ loc' = [loc EXCEPT ![w] = l]
          /\ wf' = Row(l, "RUNNING")
          /\ UNCHANGED <<jobVars, attempt, session, att, commands, doing, procVars, crashes, stalls>>
          BY <1>4 DEF ResumeWorkflow, Free
    <2> HIDE DEF l
    <2>4. RowsTyped
          BY <1>0, <2>2, <2>3, RowType DEF RowsTyped, TypeOK, procVars, States
    <2>5. "matching" \in Pcs \ Free /\ "matching" \notin InLoop
          BY DEF Pcs, Free, InLoop
    <2> QED BY <2>2, <2>3, <2>4, <2>5, RowStep DEF InLoop
  <1>5. CASE Deny(w)
    <2>1. [wf EXCEPT !.state = "FAILED"] \in WorkflowRow
          BY <1>0 DEF WorkflowRow, States, Terminal
    <2>2. RowsTyped
          BY <1>0, <1>5, <2>1 DEF Deny, RowsTyped, TypeOK, procVars
    <2>3. /\ Goto(w, "done") /\ pc[w] \notin Free /\ loc' = loc
          /\ UNCHANGED <<jobVars, commands, doing, crashes, stalls>>
          BY <1>5 DEF Deny, Free
    <2>4. "done" \in Pcs \ Free /\ "done" \notin InLoop
          BY DEF Pcs, Free, InLoop
    <2>5. loc' = [loc EXCEPT ![w] = loc[w]]
          BY <1>0, <2>3, SameLocals
    <2> QED BY <1>0, <2>2, <2>3, <2>4, <2>5, RowStep DEF InLoop
  <1> QED BY <1>1, <1>2, <1>3, <1>4, <1>5

\* A step that raises an Attention and is about to park the workflow.
LEMMA ParkingStep ==
  ASSUME IInv, NEW w \in Workers, pc[w] \notin Free, NEW l \in Locals, NEW state \in States,
         NEW kind \in {"DECISION", "APPROVAL", "SECURITY", "RECOVERY", "FAILURE", "CAPABILITY"},
         NEW auth \in Auths \cup {None}, RaiseAndPark(w, kind, auth, l, state),
         wf' = wf, attempt' \in Seq({"RUNNING", "BLOCKED", "PASS", "FAIL"}),
         Len(attempt') = Len(attempt), session' \in Seq(SessionRow), Len(session') = Len(attempt'),
         procs' \subseteq procs,
         UNCHANGED <<jobVars, commands, doing, launches, launchedBy, crashes, stalls>>
  PROVE  IInv'
  <1>0. TypeOK
        BY DEF IInv
  <1> DEFINE m == [l EXCEPT !.park = state]
  <1>1. m \in Locals
        BY ParkType
  <1>2. att' \in Seq(AttentionRow) /\ Len(att') >= Len(att)
        BY <1>0, RaiseType DEF RaiseAndPark
  <1>3. RowsTyped
        BY <1>0, <1>2 DEF RowsTyped, TypeOK
  <1>4. Goto(w, "parking") /\ loc' = [loc EXCEPT ![w] = m]
        BY DEF RaiseAndPark
  <1>5. "parking" \in Pcs \ Free /\ "parking" \notin InLoop
        BY DEF Pcs, Free, InLoop
  <1> HIDE DEF m
  <1> QED BY <1>1, <1>3, <1>4, <1>5, RowStep DEF InLoop

(* The loop.                                                                 *)
LEMMA DecidedType ==
  ASSUME IInv, NEW w \in Workers, pc[w] = "deciding"
  PROVE  Decided(w) \in Locals /\ Decided(w).grants = loc[w].grants
  <1>1. loc[w] \in Locals /\ loc[w].acts < MaxActions
        BY DEF IInv, TypeOK, LoopInv, InLoop
  <1>2. loc[w].acts + 1 \in 0..MaxActions
        BY <1>1, BudgetAssumption DEF Locals
  <1> QED BY <1>1, <1>2 DEF Decided, Locals

LEMMA AskTypes ==
  ASSUME IInv, NEW w \in Workers,
         \/ NoExecutor(w) \/ Exhaust(w) \/ ExecutorFails(w)
         \/ \E auth \in Auths \cup {None} : AskPermission(w, auth)
         \/ DecideAsk(w, "DECISION", "WAITING_FOR_HUMAN")
         \/ DecideAsk(w, "APPROVAL", "WAITING_FOR_APPROVAL")
  PROVE  IInv'
  <1>0. /\ TypeOK /\ loc[w] \in Locals
        /\ attempt \in Seq({"RUNNING", "BLOCKED", "PASS", "FAIL"})
        /\ session \in Seq(SessionRow) /\ Len(session) = Len(attempt)
        BY DEF IInv, TypeOK
  <1>1. {"FAILED", "WAITING_FOR_CAPABILITY", "WAITING_FOR_HUMAN", "WAITING_FOR_APPROVAL"} \subseteq States
        BY DEF States, Terminal, Parked
  <1>2. CASE NoExecutor(w)
        BY <1>0, <1>1, <1>2, ParkingStep DEF NoExecutor, Free, procVars
  <1>3. CASE Exhaust(w)
        BY <1>0, <1>1, <1>3, ParkingStep DEF Exhaust, Free, procVars
  <1>4. CASE ExecutorFails(w)
    <2>1. CloseAttempt(w, "FAIL") /\ procs' \subseteq procs /\ pc[w] \notin Free
          BY <1>4 DEF ExecutorFails, Free
    <2>2. /\ attempt' \in Seq({"RUNNING", "BLOCKED", "PASS", "FAIL"})
          /\ Len(attempt') = Len(attempt)
          /\ session' \in Seq(SessionRow) /\ Len(session') = Len(attempt')
          BY <1>0, <2>1, CloseType
    <2>3. /\ RaiseAndPark(w, "FAILURE", None, loc[w], "FAILED") /\ wf' = wf
          /\ UNCHANGED <<jobVars, commands, doing, launches, launchedBy, crashes, stalls>>
          BY <1>4 DEF ExecutorFails
    <2> QED BY <1>0, <1>1, <2>1, <2>2, <2>3, ParkingStep
  <1>5. ASSUME NEW auth \in Auths \cup {None}, AskPermission(w, auth) PROVE IInv'
    <2>1. CloseAttempt(w, "BLOCKED") /\ procs' \subseteq procs /\ pc[w] \notin Free
          BY <1>5 DEF AskPermission, Free
    <2>2. /\ attempt' \in Seq({"RUNNING", "BLOCKED", "PASS", "FAIL"})
          /\ Len(attempt') = Len(attempt)
          /\ session' \in Seq(SessionRow) /\ Len(session') = Len(attempt')
          BY <1>0, <2>1, CloseType
    <2>3. /\ wf' = wf
          /\ UNCHANGED <<jobVars, commands, doing, launches, launchedBy, crashes, stalls>>
          BY <1>5 DEF AskPermission
    <2>4. CASE auth = None
      <3>1. RaiseAndPark(w, "SECURITY", None, loc[w], "WAITING_FOR_HUMAN")
            BY <1>5, <2>4 DEF AskPermission
      <3> QED BY <1>0, <1>1, <2>1, <2>2, <2>3, <3>1, ParkingStep
    <2>5. CASE auth # None
      <3>1. RaiseAndPark(w, "APPROVAL", auth, loc[w], "WAITING_FOR_APPROVAL")
            BY <1>5, <2>5 DEF AskPermission
      <3> QED BY <1>0, <1>1, <2>1, <2>2, <2>3, <3>1, ParkingStep
    <2> QED BY <2>4, <2>5
  <1>6. ASSUME NEW kind \in {"DECISION", "APPROVAL"},
               NEW state \in {"WAITING_FOR_HUMAN", "WAITING_FOR_APPROVAL"},
               DecideAsk(w, kind, state)
        PROVE  IInv'
    <2> DEFINE l == [Decided(w) EXCEPT !.sess = loc[w].cur]
    <2>1. l \in Locals
      <3>1. Decided(w) \in Locals /\ loc[w].cur \in Nat
            BY <1>0, <1>6, DecidedType DEF DecideAsk, Locals
      <3> QED BY <3>1 DEF Locals
    <2>2. /\ RaiseAndPark(w, kind, None, l, state) /\ wf' = wf /\ pc[w] \notin Free
          /\ attempt' = attempt /\ session' = session /\ procs' = procs
          /\ UNCHANGED <<jobVars, commands, doing, launches, launchedBy, crashes, stalls>>
          BY <1>6 DEF DecideAsk, Free, procVars
    <2> HIDE DEF l
    <2> QED BY <1>0, <1>1, <2>1, <2>2, ParkingStep
  <1> QED BY <1>2, <1>3, <1>4, <1>5, <1>6

LEMMA LoopTypes ==
  ASSUME IInv, NEW w \in Workers,
         \/ StartAttempt(w) \/ Launch(w) \/ Announce(w)
         \/ \E res \in {"PASS", "FAIL"} : Finish(w, res)
         \/ Verify(w) \/ Park(w)
         \/ \E state \in {"COMPLETED", "PAUSED", "VERIFYING", "FAILED"} : DecideState(w, state)
         \/ DecideLoop(w, loc[w].cur) \/ DecideLoop(w, 0)
  PROVE  IInv'
  <1>0. /\ TypeOK /\ loc[w] \in Locals
        /\ attempt \in Seq({"RUNNING", "BLOCKED", "PASS", "FAIL"})
        /\ session \in Seq(SessionRow) /\ Len(session) = Len(attempt) /\ Len(attempt) \in Nat
        BY DEF IInv, TypeOK
  <1>1. {"FAILED", "COMPLETED", "PAUSED", "VERIFYING", "RUNNING"} \subseteq States
        BY DEF States, Terminal, Parked
  <1>2. CASE StartAttempt(w)
    <2> DEFINE a == Len(attempt) + 1
               s == loc[w].sess
               l == [loc[w] EXCEPT !.tries = @ + 1, !.att = a, !.cur = s, !.res = "none"]
    <2>1. l \in Locals /\ l.acts < MaxActions /\ l.att = a
      <3>1. loc[w].tries + 1 \in 0..MaxAttempts /\ loc[w].acts < MaxActions
            BY <1>0, <1>2, BudgetAssumption DEF StartAttempt, InBudget, Locals
      <3>2. a \in Nat /\ s \in Nat
            BY <1>0 DEF Locals
      <3> QED BY <1>0, <3>1, <3>2 DEF Locals
    <2>2. /\ attempt' = Append(attempt, "RUNNING") /\ wf' = Row(l, "RUNNING")
          /\ loc' = [loc EXCEPT ![w] = l] /\ Goto(w, "launching") /\ pc[w] \notin Free
          /\ UNCHANGED <<jobVars, att, commands, doing, procVars, crashes, stalls>>
          BY <1>2 DEF StartAttempt, Free
    <2>3. /\ attempt' \in Seq({"RUNNING", "BLOCKED", "PASS", "FAIL"})
          /\ Len(attempt') = a
          BY <1>0, <2>2
    <2>4. session' \in Seq(SessionRow) /\ Len(session') = a
      <3>1. session' = [b \in 1..a |->
                IF b = a THEN [announced |-> FALSE, running |-> FALSE, head |-> 0, pid |-> FALSE]
                ELSE IF b = s THEN [session[s] EXCEPT !.running = TRUE, !.head = a, !.pid = FALSE]
                ELSE session[b]]
            BY <1>2 DEF StartAttempt
      <3>2. [announced |-> FALSE, running |-> FALSE, head |-> 0, pid |-> FALSE] \in SessionRow
            BY DEF SessionRow
      <3>3. ASSUME NEW b \in 1..a, b # a
            PROVE  /\ session[b] \in SessionRow
                   /\ b = s => [session[s] EXCEPT !.running = TRUE, !.head = a, !.pid = FALSE]
                                 \in SessionRow
        <4>1. b \in 1..Len(session)
              BY <1>0, <3>3
        <4>2. session[b] \in SessionRow
              BY <1>0, <4>1
        <4>3. a \in Nat
              BY <1>0
        <4> QED BY <4>2, <4>3 DEF SessionRow
      <3>4. session' \in [1..a -> SessionRow]
            BY <3>1, <3>2, <3>3
      <3> QED BY <1>0, <3>4
    <2> HIDE DEF l
    <2>5. RowsTyped
      <3>1. wf' \in WorkflowRow
            BY <1>1, <2>1, <2>2, RowType
      <3>2. procs' \subseteq 1..Len(attempt') /\ Len(attempt') >= Len(attempt)
            BY <1>0, <2>2, <2>3 DEF TypeOK, procVars
      <3>3. att \in Seq(AttentionRow) /\ Len(att) \in Nat /\ launches \in Nat
            /\ launchedBy \subseteq JobIds \X Nat
            BY <1>0 DEF TypeOK
      <3> QED BY <2>2, <2>3, <2>4, <3>1, <3>2, <3>3 DEF RowsTyped, procVars
    <2>6. "launching" \in Pcs \ Free
          BY DEF Pcs, Free
    <2>7. l.att \in 1..Len(attempt')
          BY <1>0, <2>1, <2>3
    <2> QED BY <2>1, <2>2, <2>5, <2>6, <2>7, RowStep
  <1>3. CASE Launch(w)
    <2>1. loc[w].att \in 1..Len(attempt) /\ loc[w].acts < MaxActions /\ doing[w] \in JobIds
          BY <1>3 DEF Launch, IInv, LoopInv, InLoop, BusyInv, Free
    <2>2. session' \in Seq(SessionRow) /\ Len(session') = Len(session)
      <3>1. ASSUME NEW s \in 1..Len(session)
            PROVE  [session[s] EXCEPT !.pid = @ \/ s = loc[w].cur] \in SessionRow
        <4>1. session[s] \in SessionRow
              BY <1>0
        <4>2. (session[s].pid \/ s = loc[w].cur) \in BOOLEAN
              OBVIOUS
        <4> QED BY <4>1, <4>2 DEF SessionRow
      <3>2. session' \in [1..Len(session) -> SessionRow]
            BY <1>0, <1>3, <3>1 DEF Launch
      <3> QED BY <1>0, <3>2
    <2>3. launchedBy' \subseteq JobIds \X Nat
      <3>1. job[doing[w]].tries \in Nat
            BY <1>0, <2>1 DEF TypeOK, JobRow
      <3> QED BY <1>0, <1>3, <2>1, <3>1 DEF Launch, TypeOK
    <2>4. procs' \subseteq 1..Len(attempt) /\ launches' \in Nat
          BY <1>0, <1>3, <2>1 DEF Launch, TypeOK
    <2>5. RowsTyped
          BY <1>0, <1>3, <2>2, <2>3, <2>4 DEF Launch, RowsTyped, TypeOK
    <2>6. /\ Goto(w, "executing") /\ pc[w] \notin Free /\ loc' = loc
          /\ UNCHANGED <<jobVars, commands, doing, crashes, stalls>> /\ attempt' = attempt
          BY <1>3 DEF Launch, Free
    <2>7. "executing" \in Pcs \ Free /\ loc' = [loc EXCEPT ![w] = loc[w]]
          BY <1>0, <2>6, SameLocals DEF Pcs, Free
    <2> QED BY <1>0, <2>1, <2>5, <2>6, <2>7, RowStep
  <1>4. CASE Announce(w)
    <2>1. loc[w].att \in 1..Len(attempt) /\ loc[w].acts < MaxActions
          BY <1>4 DEF Announce, IInv, LoopInv, InLoop
    <2> DEFINE n == [announced |-> TRUE, running |-> TRUE, head |-> loc[w].att, pid |-> TRUE]
               l == [loc[w] EXCEPT !.cur = loc[w].att]
    <2>2. n \in SessionRow /\ l \in Locals /\ l.acts = loc[w].acts /\ l.att = loc[w].att
          BY <1>0, <2>1 DEF SessionRow, Locals
    <2>3. /\ session' = [session EXCEPT ![loc[w].att] = n]
          /\ loc' = [loc EXCEPT ![w] = l]
          BY <1>0, <1>4 DEF Announce, TypeOK
    <2> HIDE DEF n, l
    <2>4. session' \in Seq(SessionRow) /\ Len(session') = Len(session)
          BY <1>0, <2>2, <2>3, SeqExcept
    <2>5. RowsTyped
          BY <1>0, <1>4, <2>4 DEF Announce, RowsTyped, TypeOK, procVars
    <2>6. /\ Goto(w, "executing") /\ pc[w] \notin Free /\ attempt' = attempt
          /\ UNCHANGED <<jobVars, commands, doing, crashes, stalls>>
          BY <1>0, <1>4 DEF Announce, Goto, Free, TypeOK
    <2>7. "executing" \in Pcs \ Free
          BY DEF Pcs, Free
    <2> QED BY <2>1, <2>2, <2>3, <2>5, <2>6, <2>7, RowStep
  <1>5. ASSUME NEW res \in {"PASS", "FAIL"}, Finish(w, res) PROVE IInv'
    <2>1. loc[w].acts < MaxActions
          BY <1>5 DEF Finish, IInv, LoopInv, InLoop
    <2> DEFINE l == [loc[w] EXCEPT !.res = res]
    <2>2. l \in Locals /\ l.acts = loc[w].acts
          BY <1>0 DEF Locals
    <2>3. /\ loc' = [loc EXCEPT ![w] = l] /\ Goto(w, "judging") /\ pc[w] \notin Free
          /\ CloseAttempt(w, res) /\ procs' \subseteq procs
          /\ UNCHANGED <<jobVars, wf, att, commands, doing, launches, launchedBy, crashes, stalls>>
          BY <1>0, <1>5 DEF Finish, Free, TypeOK
    <2> HIDE DEF l
    <2>4. RowsTyped
      <3>1. /\ attempt' \in Seq({"RUNNING", "BLOCKED", "PASS", "FAIL"})
            /\ Len(attempt') = Len(attempt)
            /\ session' \in Seq(SessionRow) /\ Len(session') = Len(attempt')
            BY <1>0, <2>3, CloseType
      <3> QED BY <1>0, <2>3, <3>1 DEF RowsTyped, TypeOK
    <2>5. "judging" \in Pcs \ Free
          BY DEF Pcs, Free
    <2> QED BY <2>1, <2>2, <2>3, <2>4, <2>5, RowStep
  <1>6. CASE Verify(w)
    <2>1. loc[w].acts < MaxActions
          BY <1>6 DEF Verify, IInv, LoopInv, InLoop
    <2>2. RowsTyped
          BY <1>0, <1>1, <1>6, RowType DEF Verify, RowsTyped, TypeOK, procVars
    <2>3. /\ Goto(w, "deciding") /\ pc[w] \notin Free /\ loc' = loc
          /\ UNCHANGED <<jobVars, commands, doing, crashes, stalls>>
          BY <1>6 DEF Verify, Free
    <2>4. "deciding" \in Pcs \ Free /\ loc' = [loc EXCEPT ![w] = loc[w]]
          BY <1>0, <2>3, SameLocals DEF Pcs, Free
    <2> QED BY <1>0, <2>1, <2>2, <2>3, <2>4, RowStep
  <1>7. ASSUME Park(w) \/ \E state \in {"COMPLETED", "PAUSED", "VERIFYING", "FAILED"} :
                                DecideState(w, state)
        PROVE  IInv'
    <2>1. wf' \in WorkflowRow
      <3>1. CASE Park(w)
        <4>1. loc[w].park \in States
              BY <1>0 DEF Locals
        <4> QED BY <1>0, <3>1, <4>1, RowType DEF Park
      <3>2. ASSUME NEW state \in {"COMPLETED", "PAUSED", "VERIFYING", "FAILED"}, DecideState(w, state)
            PROVE  wf' \in WorkflowRow
        <4>1. Decided(w) \in Locals
              BY <3>2, DecidedType DEF DecideState
        <4> QED BY <1>1, <3>2, <4>1, RowType DEF DecideState
      <3> QED BY <1>7, <3>1, <3>2
    <2>2. /\ Goto(w, "done") /\ pc[w] \notin Free /\ loc' = loc
          /\ UNCHANGED <<jobVars, attempt, session, att, commands, doing, procVars, crashes, stalls>>
          BY <1>7 DEF Park, DecideState, Free
    <2>3. RowsTyped
          BY <1>0, <2>1, <2>2 DEF RowsTyped, TypeOK, procVars
    <2>4. "done" \in Pcs \ Free /\ "done" \notin InLoop /\ loc' = [loc EXCEPT ![w] = loc[w]]
          BY <1>0, <2>2, SameLocals DEF Pcs, Free, InLoop
    <2> QED BY <1>0, <2>2, <2>3, <2>4, RowStep DEF InLoop
  <1>8. ASSUME NEW sess \in {loc[w].cur, 0}, DecideLoop(w, sess) PROVE IInv'
    <2> DEFINE l == [Decided(w) EXCEPT !.sess = sess]
    <2>1. l \in Locals
      <3>1. Decided(w) \in Locals /\ sess \in Nat
            BY <1>0, <1>8, DecidedType DEF DecideLoop, Locals
      <3> QED BY <3>1 DEF Locals
    <2>2. /\ Goto(w, "looping") /\ pc[w] \notin Free /\ loc' = [loc EXCEPT ![w] = l]
          /\ UNCHANGED <<jobVars, rowVars, commands, doing, procVars, crashes, stalls>>
          BY <1>8 DEF DecideLoop, Free
    <2> HIDE DEF l
    <2>3. RowsTyped
          BY <1>0, <2>2, SameRows DEF rowVars, procVars
    <2>4. "looping" \in Pcs \ Free /\ "looping" \notin InLoop
          BY DEF Pcs, Free, InLoop
    <2> QED BY <2>1, <2>2, <2>3, <2>4, RowStep DEF InLoop
  <1> QED BY <1>2, <1>3, <1>4, <1>5, <1>6, <1>7, <1>8

LEMMA StepTypes == IInv /\ [Next]_vars => IInv'
  <1> SUFFICES ASSUME IInv, [Next]_vars PROVE IInv'
      OBVIOUS
  <1>1. CASE Inputs
        BY <1>1, InputTypes
  <1>2. ASSUME NEW w \in Workers, Cycle(w) \/ Crash(w) PROVE IInv'
        BY <1>2, IdleTypes, HandlerTypes, AskTypes, LoopTypes DEF Cycle
  <1>3. ASSUME NEW a \in procs, OrphanExits(a) PROVE IInv'
    <2>1. TypeOK'
          BY <1>3 DEF OrphanExits, IInv, TypeOK, jobVars, rowVars
    <2> QED BY <1>3, <2>1 DEF OrphanExits, IInv, BusyInv, LoopInv, CommandInv, jobVars, rowVars
  <1>4. ASSUME NEW j \in JobIds, LapseDead(j) \/ LapseLive(j) PROVE IInv'
    <2>0. stalls' \in 0..MaxStalls /\ lapsed' \subseteq JobIds
          BY <1>4, CountAssumption DEF LapseDead, LapseLive, IInv, TypeOK
    <2>1. TypeOK'
          BY <1>4, <2>0 DEF LapseDead, LapseLive, IInv, TypeOK, rowVars, procVars
    <2> QED BY <1>4, <2>1 DEF LapseDead, LapseLive, IInv, BusyInv, LoopInv, CommandInv, rowVars
  <1>5. CASE UNCHANGED vars
        BY <1>5 DEF vars, IInv, TypeOK, BusyInv, LoopInv, CommandInv
  <1> QED BY <1>1, <1>2, <1>3, <1>4, <1>5 DEF Next

(* Rows, locals and history have their types: in particular no checkpoint    *)
(* ever counts more attempts or actions than the budget of #execute.         *)
THEOREM RowsTypeCorrect == Spec => []TypeOK
  <1>1. IInv => TypeOK
        BY DEF IInv
  <1> QED BY <1>1, InitTypes, StepTypes, PTL DEF Spec

-----------------------------------------------------------------------------
(* Authority. What a task is authorized to do was granted by name: in the    *)
(* checkpoint, and in whatever a worker will save of it later.               *)

\* A granted Attention names the authorization.
Named(a) ==
  \E i \in 1..Len(att) :
    att[i].kind = "APPROVAL" /\ att[i].answer = "approval.granted" /\ att[i].auth = a

Unanswered == \A i \in 1..Len(att) : att[i].open => att[i].answer = "none"
GrantJobs == \A j \in JobIds : job[j].type = "approval.granted" => job[j].att \in 1..Len(att)

AuthInv ==
  /\ \A a \in wf.grants : Named(a)
  /\ \A w \in Workers : \A a \in loc[w].grants : Named(a)
  /\ Unanswered
  /\ GrantJobs

LEMMA AuthInit == Init => AuthInv
  <1> SUFFICES ASSUME Init PROVE AuthInv
      OBVIOUS
  <1>1. wf.grants = {} /\ \A w \in Workers : loc[w].grants = {}
        BY DEF Init, Row, Fresh
  <1>2. Len(att) = 0
        BY DEF Init
  <1>3. Unanswered
        BY <1>2 DEF Unanswered
  <1>4. GrantJobs
        BY DEF Init, GrantJobs
  <1> QED BY <1>1, <1>3, <1>4 DEF AuthInv

\* Attentions are only added, or answered once.
AttGrows ==
  /\ Len(att') >= Len(att) /\ Len(att) \in Nat /\ Len(att') \in Nat
  /\ \A i \in 1..Len(att) : att'[i] = att[i] \/ att[i].answer = "none"
  /\ Unanswered'

LEMMA AuthStep ==
  ASSUME AuthInv, AttGrows, \A a \in wf'.grants : Named(a),
         \A w \in Workers : \A a \in loc'[w].grants : Named(a),
         \A j \in JobIds : job'[j].type = "approval.granted" => job'[j].att \in 1..Len(att)
  PROVE  AuthInv'
  <1>1. \A a : Named(a) => Named(a)'
        BY DEF AttGrows, Named
  <1>2. GrantJobs'
        BY DEF GrantJobs, AttGrows
  <1> QED BY <1>1, <1>2 DEF AuthInv, AttGrows

LEMMA AttSame ==
  ASSUME TypeOK, AuthInv, att' = att
  PROVE  AttGrows
  <1>1. Len(att) \in Nat
        BY DEF TypeOK
  <1> QED BY <1>1 DEF AuthInv, AttGrows, Unanswered

LEMMA AttRaised ==
  ASSUME TypeOK, AuthInv, NEW n \in AttentionRow, n.answer = "none", att' = Append(att, n)
  PROVE  AttGrows
  <1>1. /\ Len(att') = Len(att) + 1 /\ Len(att) \in Nat
        /\ \A i \in 1..Len(att) : att'[i] = att[i]
        /\ att'[Len(att) + 1] = n
        BY AppendNotice DEF TypeOK
  <1>2. \A i \in 1..Len(att') : i \in 1..Len(att) \/ i = Len(att) + 1
        BY <1>1
  <1>3. Unanswered'
        BY <1>1, <1>2 DEF AuthInv, Unanswered
  <1> QED BY <1>1, <1>3 DEF AttGrows

\* A worker's step that adds no authority: its checkpoint and the row are
\* made of what either held.
LEMMA AuthQuiet ==
  ASSUME IInv, AuthInv, NEW w \in Workers, AttGrows,
         wf'.grants \subseteq wf.grants \cup loc[w].grants,
         NEW l, loc' = [loc EXCEPT ![w] = l],
         l.grants \subseteq wf.grants \cup loc[w].grants,
         \A j \in JobIds : job'[j].type = job[j].type /\ job'[j].att = job[j].att
  PROVE  AuthInv'
  <1>1. \A a \in wf'.grants : Named(a)
        BY DEF AuthInv
  <1>2. \A x \in Workers : loc'[x].grants \subseteq wf.grants \cup loc[w].grants \cup loc[x].grants
        BY DEF IInv, TypeOK
  <1>3. \A x \in Workers : \A a \in loc'[x].grants : Named(a)
        BY <1>2 DEF AuthInv
  <1>4. \A j \in JobIds : job'[j].type = "approval.granted" => job'[j].att \in 1..Len(att)
        BY DEF AuthInv, GrantJobs
  <1> QED BY <1>1, <1>3, <1>4, AuthStep

LEMMA AuthInputs ==
  ASSUME IInv, AuthInv, Inputs
  PROVE  AuthInv'
  <1>0. TypeOK /\ job \in [JobIds -> JobRow]
        BY DEF IInv, TypeOK
  <1>1. ASSUME NEW j \in JobIds, NEW t \in JobTypes, NEW i \in Nat, Insert(j, t, i), AttGrows,
               t = "approval.granted" => i \in 1..Len(att), UNCHANGED <<wf, loc>>
        PROVE  AuthInv'
    <2>1. \A k \in JobIds : job'[k].type = "approval.granted" => job'[k].att \in 1..Len(att)
      <3>1. CASE job' = job
            BY <3>1 DEF AuthInv, GrantJobs
      <3>2. CASE job'[j] = [type |-> t, status |-> "PENDING", tries |-> 0, att |-> i, holder |-> None]
            BY <1>0, <1>1, <3>2, InsertType DEF AuthInv, GrantJobs
      <3> QED BY <1>0, <1>1, <3>1, <3>2, InsertType
    <2> QED BY <1>1, <2>1, AuthStep DEF AuthInv
  <1>2. ASSUME NEW j \in JobIds, NEW t \in JobTypes \ {"approval.granted"}, Insert(j, t, 0),
               UNCHANGED <<rowVars, loc>>
        PROVE  AuthInv'
    <2>1. AttGrows
          BY <1>0, <1>2, AttSame DEF rowVars
    <2> QED BY <1>1, <1>2, <2>1 DEF rowVars
  <1>3. ASSUME \/ \E n \in 1..Tasks : TaskEvent(n)
               \/ \E n \in 1..Schedules : Occurrence(n)
               \/ \E n \in 1..Triggers : Trigger(n)
               \/ \E j \in {<<"resume", 0>>} \cup OperatorKeys : OperatorResume(j)
        PROVE  AuthInv'
    <2>1. PICK j \in JobIds, t \in {"task.created", "scheduled.task", "workflow.resume_requested"} :
            Insert(j, t, 0)
          BY <1>3, JobIdsType DEF TaskEvent, Occurrence, Trigger, OperatorResume
    <2>2. UNCHANGED <<rowVars, loc>>
          BY <1>3 DEF TaskEvent, Occurrence, Trigger, OperatorResume
    <2>3. t \in JobTypes \ {"approval.granted"}
          BY DEF JobTypes, ResumeTypes
    <2> QED BY <1>2, <2>1, <2>2, <2>3
  <1>4. ASSUME NEW i, NEW t, NEW key, ReadAttention(i, t, key)
        PROVE  AuthInv'
    <2>1. att' = att /\ wf' = wf /\ loc' = loc /\ job' = job
          BY <1>4 DEF ReadAttention, rowVars, jobVars
    <2>2. AttGrows
          BY <1>0, <2>1, AttSame
    <2> QED BY <2>1, <2>2, AuthStep DEF AuthInv, GrantJobs
  <1>5. ASSUME NEW c \in commands, Respond(c) PROVE AuthInv'
    <2>1. c.att \in 1..Len(att) /\ c.att \in Nat /\ c.type \in JobTypes /\ c.key \in JobIds
      <3>1. c \in Command
            BY <1>0 DEF TypeOK
      <3> QED BY <3>1 DEF Command, IInv, CommandInv
    <2>2. AttGrows
      <3>1. CASE ~att[c.att].open
            BY <1>0, <1>5, <3>1, AttSame DEF Respond
      <3>2. CASE att[c.att].open
        <4>1. att \in Seq(AttentionRow) /\ Len(att) \in Nat
              BY <1>0 DEF TypeOK
        <4> DEFINE n == [att[c.att] EXCEPT !.open = FALSE, !.answer = c.type]
        <4>2. ~n.open
          <5>1. att[c.att] \in AttentionRow
                BY <2>1, <4>1
          <5> QED BY <5>1 DEF AttentionRow
        <4>3. att' = [att EXCEPT ![c.att] = n]
              BY <1>5, <2>1, <3>2, <4>1 DEF Respond
        <4> HIDE DEF n
        <4>4. /\ Len(att') = Len(att)
              /\ \A i \in 1..Len(att) : i # c.att => att'[i] = att[i]
              /\ att'[c.att] = n
              BY <2>1, <4>1, <4>3
        <4>5. att[c.att].answer = "none"
              BY <2>1, <3>2 DEF AuthInv, Unanswered
        <4>6. Unanswered'
              BY <4>2, <4>4 DEF AuthInv, Unanswered
        <4> QED BY <4>1, <4>4, <4>5, <4>6 DEF AttGrows
      <3> QED BY <3>1, <3>2
    <2>3. Insert(c.key, c.type, c.att) /\ wf' = wf /\ loc' = loc
          BY <1>5 DEF Respond
    <2> QED BY <1>1, <2>1, <2>2, <2>3
  <1> QED BY <1>3, <1>4, <1>5 DEF Inputs

\* A step that raises an Attention, of a worker that parks what it has.
LEMMA AuthParking ==
  ASSUME IInv, AuthInv, NEW w \in Workers, NEW l \in Locals, NEW state \in States,
         NEW kind \in {"DECISION", "APPROVAL", "SECURITY", "RECOVERY", "FAILURE", "CAPABILITY"},
         NEW auth \in Auths \cup {None}, RaiseAndPark(w, kind, auth, l, state),
         l.grants = loc[w].grants, wf' = wf, job' = job
  PROVE  AuthInv'
  <1> DEFINE m == [l EXCEPT !.park = state]
             n == Notice(kind, auth, None)
  <1>1. m.grants = l.grants
        BY ParkType
  <1>2. n \in AttentionRow /\ n.answer = "none"
        BY NoticeType DEF Notice
  <1>3. att' = Append(att, n) /\ loc' = [loc EXCEPT ![w] = m]
        BY DEF RaiseAndPark, Raise
  <1> HIDE DEF m, n
  <1>4. AttGrows
        BY <1>2, <1>3, AttRaised DEF IInv
  <1>5. /\ wf'.grants \subseteq wf.grants \cup loc[w].grants
        /\ m.grants \subseteq wf.grants \cup loc[w].grants
        BY <1>1
  <1> QED BY <1>3, <1>4, <1>5, AuthQuiet

LEMMA AuthCycle ==
  ASSUME IInv, AuthInv, NEW w \in Workers, Cycle(w) \/ Crash(w)
  PROVE  AuthInv'
  <1>0. /\ TypeOK /\ loc[w] \in Locals /\ wf \in WorkflowRow /\ job \in [JobIds -> JobRow]
        /\ loc' = loc => loc' = [loc EXCEPT ![w] = loc[w]]
        BY DEF IInv, TypeOK
  <1>a. {"FAILED", "WAITING_FOR_CAPABILITY", "WAITING_FOR_HUMAN", "WAITING_FOR_APPROVAL"} \subseteq States
        BY DEF States, Terminal, Parked
  <1>b. Fresh.grants = {}
        BY DEF Fresh
  <1>1. ASSUME att' = att, loc' = loc, job' = job, wf'.grants \subseteq wf.grants \cup loc[w].grants
        PROVE  AuthInv'
    <2>1. AttGrows
          BY <1>0, <1>1, AttSame
    <2> QED BY <1>0, <1>1, <2>1, AuthQuiet
  <1>2. ASSUME NEW s \in DOMAIN session, MarkLost(w, s) PROVE AuthInv'
    <2>1. wf'.grants = wf.grants
          BY <1>0, <1>2 DEF MarkLost, WorkflowRow
    <2>2. AttGrows
      <3>1. CASE att' = att
            BY <1>0, <3>1, AttSame
      <3>2. CASE Raise("FAILURE", None)
        <4>1. Notice("FAILURE", None, None) \in AttentionRow /\ Notice("FAILURE", None, None).answer = "none"
              BY NoticeType DEF Notice
        <4> QED BY <1>0, <3>2, <4>1, AttRaised DEF Raise
      <3> QED BY <1>2, <3>1, <3>2 DEF MarkLost
    <2>3. loc' = [loc EXCEPT ![w] = loc[w]] /\ job' = job
          BY <1>0, <1>2 DEF MarkLost, jobVars
    <2> QED BY <1>0, <2>1, <2>2, <2>3, AuthQuiet
  <1>3. CASE \/ Reconciled(w) \/ NoJob(w) \/ Skip(w) \/ RefuseTask(w) \/ RefuseResume(w)
             \/ Match(w) \/ DecisionFails(w) \/ Launch(w)
        BY <1>1, <1>3 DEF Reconciled, NoJob, Skip, RefuseTask, RefuseResume, Match, DecisionFails,
             Launch, jobVars, rowVars
  <1>4. ASSUME NEW j \in JobIds, Claim(w, j) PROVE AuthInv'
    <2>1. \A k \in JobIds : job'[k].type = job[k].type /\ job'[k].att = job[k].att
      <3>1. job[j] \in JobRow
            BY <1>0
      <3>2. [job[j] EXCEPT !.status = "RUNNING", !.holder = w, !.tries = @ + 1].type = job[j].type
            /\ [job[j] EXCEPT !.status = "RUNNING", !.holder = w, !.tries = @ + 1].att = job[j].att
            BY <3>1 DEF JobRow
      <3>3. job' = [job EXCEPT ![j] =
                      [job[j] EXCEPT !.status = "RUNNING", !.holder = w, !.tries = @ + 1]]
            BY <1>0, <1>4 DEF Claim
      <3> QED BY <1>0, <3>2, <3>3
    <2>2. att' = att /\ wf' = wf /\ loc' = loc
          BY <1>4 DEF Claim, rowVars
    <2>3. AttGrows
          BY <1>0, <2>2, AttSame
    <2> QED BY <1>0, <2>1, <2>2, <2>3, AuthQuiet
  <1>5. CASE Settle(w) \/ Crash(w)
    <2>1. \A k \in JobIds : job'[k].type = job[k].type /\ job'[k].att = job[k].att
      <3>1. CASE job' = job
            BY <3>1
      <3>2. CASE Settle(w) /\ Holds(doing[w], w)
        <4> DEFINE j == doing[w]
        <4>1. j \in JobIds
              BY <3>2 DEF Settle, IInv, BusyInv, Free
        <4>2. PICK end \in {"FAILED", "COMPLETED"} :
                job' = [job EXCEPT ![j].status = end, ![j].holder = None]
              BY <3>2 DEF Settle
        <4>3. job[j] \in JobRow
              BY <1>0, <4>1
        <4>4. /\ [job[j] EXCEPT !.status = end, !.holder = None].type = job[j].type
              /\ [job[j] EXCEPT !.status = end, !.holder = None].att = job[j].att
              BY <4>3 DEF JobRow
        <4>5. job' = [job EXCEPT ![j] = [job[j] EXCEPT !.status = end, !.holder = None]]
              BY <1>0, <4>1, <4>2
        <4> QED BY <1>0, <4>1, <4>4, <4>5
      <3> QED BY <1>5, <3>1, <3>2 DEF Settle, Crash, jobVars
    <2>2. att' = att /\ wf' = wf /\ loc' = [loc EXCEPT ![w] = Fresh]
          BY <1>5 DEF Settle, Crash, rowVars
    <2>3. AttGrows
          BY <1>0, <2>2, AttSame
    <2> QED BY <1>b, <2>1, <2>2, <2>3, AuthQuiet
  <1>6. CASE Recover(w)
    <2> DEFINE l == [Restore(wf) EXCEPT !.park = "PAUSED"]
               n == Notice("RECOVERY", None, doing[w])
    <2>1. l.grants = wf.grants
          BY <1>0, RestoreType, ParkType DEF States, Parked
    <2>2. n \in AttentionRow /\ n.answer = "none"
      <3>1. doing[w] \in JobIds
            BY <1>6 DEF IInv, BusyInv, Recover, Free
      <3> QED BY <3>1, NoticeType DEF Notice
    <2>3. /\ att' = att \/ att' = Append(att, n)
          /\ loc' = [loc EXCEPT ![w] = l] /\ wf' = wf /\ job' = job
          BY <1>6 DEF Recover, jobVars
    <2> HIDE DEF l, n
    <2>4. AttGrows
          BY <1>0, <2>2, <2>3, AttSame, AttRaised
    <2> QED BY <2>1, <2>3, <2>4, AuthQuiet
  <1>7. CASE RunTask(w)
    <2>1. att' = att /\ job' = job /\ loc' = [loc EXCEPT ![w] = Fresh] /\ wf'.grants = {}
          BY <1>7, <1>b DEF RunTask, Row, jobVars
    <2>2. AttGrows
          BY <1>0, <2>1, AttSame
    <2> QED BY <1>b, <2>1, <2>2, AuthQuiet
  <1>8. CASE ResumeWorkflow(w)
    <2> DEFINE new == IF Type(w) = "approval.granted" THEN Granted(job[doing[w]].att) ELSE {}
               l == [Restore(wf) EXCEPT !.grants = @ \cup new]
    <2>1. l.grants = wf.grants \cup new
          BY <1>0, RestoreType DEF Locals
    <2>2. \A a \in new : Named(a)
      <3> SUFFICES ASSUME Type(w) = "approval.granted", NEW a \in Granted(job[doing[w]].att)
                   PROVE  Named(a)
          OBVIOUS
      <3>1. doing[w] \in JobIds
            BY <1>8 DEF ResumeWorkflow, IInv, BusyInv, Free
      <3>2. job[doing[w]].att \in 1..Len(att)
            BY <3>1 DEF Type, AuthInv, GrantJobs
      <3> QED BY <3>2 DEF Granted, Named
    <2>3. /\ att' = att /\ job' = job /\ loc' = [loc EXCEPT ![w] = l] /\ wf' = Row(l, "RUNNING")
          BY <1>8 DEF ResumeWorkflow, jobVars
    <2> HIDE DEF l, new
    <2>4. AttGrows
          BY <1>0, <2>3, AttSame
    <2>5. \A a \in l.grants : Named(a)
          BY <2>1, <2>2 DEF AuthInv
    <2>6. wf'.grants = l.grants
          BY <2>3 DEF Row
    <2>7. \A x \in Workers : \A a \in loc'[x].grants : Named(a)
          BY <2>3, <2>5 DEF AuthInv, IInv, TypeOK
    <2> QED BY <2>3, <2>4, <2>5, <2>6, <2>7, AuthStep DEF AuthInv, GrantJobs
  <1>9. CASE Deny(w)
    <2>1. wf'.grants = wf.grants
          BY <1>0, <1>9 DEF Deny, WorkflowRow
    <2> QED BY <1>1, <1>9, <2>1 DEF Deny, jobVars
  <1>10. CASE NoExecutor(w)
        BY <1>0, <1>a, <1>10, AuthParking DEF NoExecutor, jobVars
  <1>11. CASE Exhaust(w)
        BY <1>0, <1>a, <1>11, AuthParking DEF Exhaust, jobVars
  <1>12. CASE ExecutorFails(w)
        BY <1>0, <1>a, <1>12, AuthParking DEF ExecutorFails, jobVars
  <1>13. ASSUME NEW auth \in Auths \cup {None}, AskPermission(w, auth) PROVE AuthInv'
        BY <1>0, <1>a, <1>13, AuthParking DEF AskPermission, jobVars
  <1>14. ASSUME NEW kind \in {"DECISION", "APPROVAL"},
                NEW state \in {"WAITING_FOR_HUMAN", "WAITING_FOR_APPROVAL"},
                DecideAsk(w, kind, state)
         PROVE  AuthInv'
    <2> DEFINE l == [Decided(w) EXCEPT !.sess = loc[w].cur]
    <2>1. l \in Locals /\ l.grants = loc[w].grants
      <3>1. Decided(w) \in Locals /\ Decided(w).grants = loc[w].grants /\ loc[w].cur \in Nat
            BY <1>0, <1>14, DecidedType DEF DecideAsk, Locals
      <3> QED BY <3>1 DEF Locals
    <2>2. RaiseAndPark(w, kind, None, l, state) /\ wf' = wf /\ job' = job
          BY <1>14 DEF DecideAsk, jobVars
    <2> HIDE DEF l
    <2> QED BY <1>a, <2>1, <2>2, AuthParking
  <1>15. CASE StartAttempt(w)
    <2> DEFINE l == [loc[w] EXCEPT !.tries = @ + 1, !.att = Len(attempt) + 1, !.cur = loc[w].sess,
                                   !.res = "none"]
    <2>1. l.grants = loc[w].grants
          BY <1>0 DEF Locals
    <2>2. att' = att /\ job' = job /\ loc' = [loc EXCEPT ![w] = l] /\ wf' = Row(l, "RUNNING")
          BY <1>15 DEF StartAttempt, jobVars
    <2> HIDE DEF l
    <2>3. AttGrows /\ wf'.grants = l.grants
          BY <1>0, <2>2, AttSame DEF Row
    <2> QED BY <2>1, <2>2, <2>3, AuthQuiet
  <1>16. ASSUME NEW res \in {"PASS", "FAIL"}, Announce(w) \/ Finish(w, res) PROVE AuthInv'
    <2>1. PICK l \in {[loc[w] EXCEPT !.cur = loc[w].att], [loc[w] EXCEPT !.res = res]} :
            loc' = [loc EXCEPT ![w] = l]
          BY <1>0, <1>16 DEF Announce, Finish, TypeOK
    <2>2. l.grants = loc[w].grants
          BY <1>0 DEF Locals
    <2>3. att' = att /\ job' = job /\ wf' = wf
          BY <1>16 DEF Announce, Finish, jobVars
    <2>4. AttGrows
          BY <1>0, <2>3, AttSame
    <2> QED BY <2>1, <2>2, <2>3, <2>4, AuthQuiet
  <1>17. CASE Verify(w) \/ Park(w)
    <2>1. wf'.grants = loc[w].grants
          BY <1>17 DEF Verify, Park, Row
    <2> QED BY <1>1, <1>17, <2>1 DEF Verify, Park, jobVars
  <1>18. ASSUME NEW state, DecideState(w, state) PROVE AuthInv'
    <2>1. wf'.grants = loc[w].grants
          BY <1>18, DecidedType DEF DecideState, Row
    <2> QED BY <1>1, <1>18, <2>1 DEF DecideState, jobVars
  <1>19. ASSUME NEW sess, DecideLoop(w, sess) PROVE AuthInv'
    <2> DEFINE l == [Decided(w) EXCEPT !.sess = sess]
    <2>1. l.grants = loc[w].grants
      <3>1. Decided(w) \in Locals /\ Decided(w).grants = loc[w].grants
            BY <1>19, DecidedType DEF DecideLoop
      <3> QED BY <3>1 DEF Locals
    <2>2. att' = att /\ job' = job /\ wf' = wf /\ loc' = [loc EXCEPT ![w] = l]
          BY <1>19 DEF DecideLoop, jobVars, rowVars
    <2> HIDE DEF l
    <2>3. AttGrows
          BY <1>0, <2>2, AttSame
    <2> QED BY <2>1, <2>2, <2>3, AuthQuiet
  <1> QED BY <1>2, <1>3, <1>4, <1>5, <1>6, <1>7, <1>8, <1>9, <1>10, <1>11, <1>12, <1>13, <1>14,
             <1>15, <1>16, <1>17, <1>18, <1>19 DEF Cycle

LEMMA AuthNext == IInv /\ AuthInv /\ [Next]_vars => AuthInv'
  <1> SUFFICES ASSUME IInv, AuthInv, [Next]_vars PROVE AuthInv'
      OBVIOUS
  <1>1. CASE Inputs
        BY <1>1, AuthInputs
  <1>2. ASSUME NEW w \in Workers, Cycle(w) \/ Crash(w) PROVE AuthInv'
        BY <1>2, AuthCycle
  <1>3. CASE (\E a \in procs : OrphanExits(a)) \/ (\E j \in JobIds : LapseDead(j) \/ LapseLive(j))
             \/ UNCHANGED vars
    <2>1. att' = att /\ wf' = wf /\ loc' = loc /\ job' = job
          BY <1>3 DEF OrphanExits, LapseDead, LapseLive, vars, jobVars, rowVars
    <2>2. AttGrows
          BY <2>1, AttSame DEF IInv
    <2> QED BY <2>1, <2>2, AuthStep DEF AuthInv, GrantJobs
  <1> QED BY <1>1, <1>2, <1>3 DEF Next

(* However jobs, answers, stalls and crashes interleave, the task is         *)
(* authorized to nothing but what an operator granted by name.               *)
THEOREM AuthorityNamed == Spec => []GrantOnlyNamed
  <1>1. Init => IInv /\ AuthInv
        BY InitTypes, AuthInit
  <1>2. IInv /\ AuthInv /\ [Next]_vars => IInv' /\ AuthInv'
        BY StepTypes, AuthNext
  <1>3. IInv /\ AuthInv => GrantOnlyNamed
    <2>1. IInv => Len(att) \in Nat /\ DOMAIN att = 1..Len(att)
          BY DEF IInv, TypeOK
    <2> QED BY <2>1 DEF AuthInv, Named, GrantOnlyNamed
  <1> QED BY <1>1, <1>2, <1>3, PTL DEF Spec

-----------------------------------------------------------------------------
(* The job table. A row names its holder exactly while it is RUNNING, so a   *)
(* claim finds a row without one, or one whose grant has lapsed.             *)

HolderInv ==
  \A j \in JobIds : IF job[j].status = "RUNNING" THEN job[j].holder \in Workers
                     ELSE job[j].holder = None

Holder == [j \in JobIds |-> job[j].holder]
Phases == [j \in JobIds |-> Phase(j)]

\* A step that leaves the rows, grants and workers of the queue alone.
LEMMA QueueStutters ==
  ASSUME UNCHANGED <<jobVars, doing>>
  PROVE  [Queue!Next]_(Queue!vars) /\ (HolderInv => HolderInv')
  BY DEF Queue!vars, Phase, jobVars, HolderInv

LEMMA QueueSubmits ==
  ASSUME IInv, HolderInv, NEW j \in JobIds, NEW t \in JobTypes, NEW i \in Nat, Insert(j, t, i),
         UNCHANGED <<lapsed, doing>>
  PROVE  [Queue!Next]_(Queue!vars) /\ HolderInv'
  <1>0. job \in [JobIds -> JobRow] /\ job' \in [JobIds -> JobRow]
        BY InsertType DEF IInv, TypeOK
  <1>1. CASE job' = job
        BY <1>1, QueueStutters DEF jobVars
  <1>2. CASE /\ job[j].status = "ABSENT"
             /\ job'[j] = [type |-> t, status |-> "PENDING", tries |-> 0, att |-> i, holder |-> None]
    <2>1. \A k \in JobIds \ {j} : job'[k] = job[k]
          BY InsertType DEF IInv, TypeOK
    <2>2. HolderInv'
          BY <1>2, <2>1 DEF HolderInv
    <2>3. Phase(j) = "absent" /\ Phase(j)' = "open"
          BY <1>2 DEF Phase
    <2>4. \A k \in JobIds \ {j} : Phase(k)' = Phase(k)
          BY <2>1 DEF Phase
    <2>5. Phases' = [Phases EXCEPT ![j] = "open"]
          BY <2>3, <2>4 DEF Phases
    <2>6. Holder' = Holder
          BY <1>2, <2>1 DEF Holder, HolderInv
    <2>7. Queue!Submit(j)
          BY <2>3, <2>5, <2>6 DEF Queue!Submit, Phases, Holder
    <2> QED BY <2>2, <2>7 DEF Queue!Next
  <1> QED BY <1>1, <1>2, InsertType DEF IInv, TypeOK

LEMMA QueueGrants ==
  ASSUME IInv, HolderInv, NEW w \in Workers, NEW j \in JobIds, Claim(w, j)
  PROVE  [Queue!Next]_(Queue!vars) /\ HolderInv'
  <1>0. job \in [JobIds -> JobRow] /\ job[j] \in JobRow /\ doing \in [Workers -> JobIds \cup {None}]
        BY DEF IInv, TypeOK
  <1> DEFINE r == [job[j] EXCEPT !.status = "RUNNING", !.holder = w, !.tries = @ + 1]
  <1>1. r.status = "RUNNING" /\ r.holder = w
        BY <1>0 DEF JobRow
  <1>2. job' = [job EXCEPT ![j] = r]
        BY <1>0 DEF Claim
  <1> HIDE DEF r
  <1>3. HolderInv'
        BY <1>0, <1>1, <1>2 DEF HolderInv
  <1>4. Phases' = Phases
    <2>1. Phase(j) = "open" /\ Phase(j)' = "open"
          BY <1>0, <1>1, <1>2 DEF Phase, Claim, Claimable
    <2>2. \A k \in JobIds \ {j} : Phase(k)' = Phase(k)
          BY <1>0, <1>2 DEF Phase
    <2>3. \A k \in JobIds : Phase(k)' = Phase(k)
          BY <2>1, <2>2
    <2> QED BY <2>3 DEF Phases
  <1>5. Phase(j) = "open" /\ (job[j].holder = None \/ j \in lapsed) /\ doing[w] = None
        BY DEF Claim, Claimable, HolderInv, Phase, IInv, BusyInv, Free
  <1>6. Holder' = [Holder EXCEPT ![j] = w]
        BY <1>0, <1>1, <1>2 DEF Holder
  <1>7. lapsed' = lapsed \ {j} /\ doing' = [doing EXCEPT ![w] = j]
        BY DEF Claim
  <1>8. Queue!Grant(j, w)
        BY <1>4, <1>5, <1>6, <1>7 DEF Queue!Grant, Phases, Holder
  <1> QED BY <1>3, <1>8 DEF Queue!Next

LEMMA QueueEnds ==
  ASSUME IInv, HolderInv, NEW w \in Workers, Settle(w) \/ Crash(w)
  PROVE  [Queue!Next]_(Queue!vars) /\ HolderInv'
  <1>0. job \in [JobIds -> JobRow]
        BY DEF IInv, TypeOK
  <1>1. doing' = [doing EXCEPT ![w] = None]
        BY DEF Settle, Crash
  <1>2. CASE UNCHANGED jobVars
    <2>1. HolderInv'
          BY <1>2 DEF HolderInv, jobVars
    <2>2. Queue!Abandon(w)
          BY <1>1, <1>2 DEF Queue!Abandon, Queue!Stop, Phase, jobVars
    <2> QED BY <2>1, <2>2 DEF Queue!Next
  <1>3. CASE Settle(w) /\ Holds(doing[w], w)
    <2>1. PICK j \in JobIds : j = doing[w] /\ job[j].status = "RUNNING" /\ job[j].holder = w
          BY <1>3 DEF Settle, IInv, BusyInv, Free, Holds
    <2>2. PICK end \in {"FAILED", "COMPLETED"} :
            job' = [job EXCEPT ![j].status = end, ![j].holder = None]
          BY <1>3, <2>1 DEF Settle
    <2> DEFINE r == [job[j] EXCEPT !.status = end, !.holder = None]
    <2>3. r.status = end /\ r.holder = None
          BY <1>0, <2>1 DEF JobRow
    <2>4. job' = [job EXCEPT ![j] = r]
          BY <1>0, <2>1, <2>2
    <2> HIDE DEF r
    <2>5. HolderInv'
          BY <1>0, <2>1, <2>3, <2>4 DEF HolderInv
    <2>6. Phase(j) = "open" /\ Phase(j)' = "settled"
          BY <1>0, <2>1, <2>3, <2>4 DEF Phase
    <2>7. \A k \in JobIds \ {j} : Phase(k)' = Phase(k)
          BY <1>0, <2>4 DEF Phase
    <2>8. Phases' = [Phases EXCEPT ![j] = "settled"]
          BY <2>1, <2>6, <2>7 DEF Phases
    <2>9. Holder' = [Holder EXCEPT ![j] = None]
          BY <1>0, <2>1, <2>3, <2>4 DEF Holder
    <2>10. lapsed' = lapsed \ {j}
          BY <1>3, <2>1 DEF Settle
    <2>11. Queue!Settle(j, w)
          BY <1>1, <2>1, <2>6, <2>8, <2>9, <2>10 DEF Queue!Settle, Queue!Stop, Phases, Holder
    <2> QED BY <2>1, <2>5, <2>11 DEF Queue!Next
  <1> QED BY <1>2, <1>3 DEF Settle, Crash

LEMMA QueueLapses ==
  ASSUME IInv, HolderInv, NEW j \in JobIds, LapseDead(j) \/ LapseLive(j)
  PROVE  [Queue!Next]_(Queue!vars) /\ HolderInv'
  <1>1. job' = job /\ doing' = doing /\ lapsed' = lapsed \cup {j} /\ job[j].status = "RUNNING"
        BY DEF LapseDead, LapseLive, Abandoned
  <1>2. job[j].holder # None
        BY <1>1, DaemonNoneAssumption DEF HolderInv
  <1>3. HolderInv'
        BY <1>1 DEF HolderInv
  <1>4. {j} \in SUBSET {k \in JobIds : Holder[k] # None}
        BY <1>2 DEF Holder
  <1>5. Queue!Lapse
        BY <1>1, <1>4 DEF Queue!Lapse, Phase, Holder
  <1> QED BY <1>3, <1>5 DEF Queue!Next

LEMMA QueueStep == IInv /\ HolderInv /\ [Next]_vars => [Queue!Next]_(Queue!vars) /\ HolderInv'
  <1> SUFFICES ASSUME IInv, HolderInv, [Next]_vars
               PROVE  [Queue!Next]_(Queue!vars) /\ HolderInv'
      OBVIOUS
  <1>1. ASSUME \/ \E n \in 1..Tasks : TaskEvent(n)
               \/ \E n \in 1..Schedules : Occurrence(n)
               \/ \E n \in 1..Triggers : Trigger(n)
               \/ \E j \in {<<"resume", 0>>} \cup OperatorKeys : OperatorResume(j)
        PROVE  [Queue!Next]_(Queue!vars) /\ HolderInv'
    <2>1. PICK j \in JobIds, t \in {"task.created", "scheduled.task", "workflow.resume_requested"} :
            Insert(j, t, 0)
          BY <1>1, JobIdsType DEF TaskEvent, Occurrence, Trigger, OperatorResume
    <2>2. UNCHANGED <<lapsed, doing>> /\ t \in JobTypes
          BY <1>1 DEF TaskEvent, Occurrence, Trigger, OperatorResume, JobTypes, ResumeTypes
    <2> QED BY <2>1, <2>2, QueueSubmits
  <1>2. ASSUME NEW c \in commands, Respond(c)
        PROVE  [Queue!Next]_(Queue!vars) /\ HolderInv'
    <2>1. c.att \in Nat /\ c.type \in JobTypes /\ c.key \in JobIds
      <3>1. c \in Command
            BY DEF IInv, TypeOK
      <3> QED BY <3>1 DEF Command
    <2> QED BY <1>2, <2>1, QueueSubmits DEF Respond
  <1>3. ASSUME NEW w \in Workers, Cycle(w) \/ Crash(w)
        PROVE  [Queue!Next]_(Queue!vars) /\ HolderInv'
    <2>1. CASE Settle(w) \/ Crash(w)
          BY <2>1, QueueEnds
    <2>2. CASE \E j \in JobIds : Claim(w, j)
          BY <2>2, QueueGrants
    <2>3. CASE UNCHANGED <<jobVars, doing>>
          BY <2>3, QueueStutters
    <2> QED BY <1>3, <2>1, <2>2, <2>3 DEF Cycle, MarkLost, Reconciled, NoJob, Skip, Recover,
               RefuseTask, RunTask, ResumeWorkflow, RefuseResume, Deny, NoExecutor, Match,
               StartAttempt, Exhaust, Launch, Announce, ExecutorFails, AskPermission, Finish,
               Verify, DecisionFails, DecideState, DecideLoop, DecideAsk, Park
  <1>4. ASSUME NEW j \in JobIds, LapseDead(j) \/ LapseLive(j)
        PROVE  [Queue!Next]_(Queue!vars) /\ HolderInv'
        BY <1>4, QueueLapses
  <1>5. CASE UNCHANGED <<jobVars, doing>>
        BY <1>5, QueueStutters
  <1> QED BY <1>1, <1>2, <1>3, <1>4, <1>5 DEF Next, Inputs, ReadAttention, OrphanExits, vars, jobVars

LEMMA QueueInit == Init => Queue!Init /\ HolderInv
  BY DEF Init, Queue!Init, Phase, HolderInv

(* The daemon and its operators use the job table as the ledger allows, so   *)
(* all it assumes of the queue is what RuntimeService is shown to implement: *)
(* for any number of workers, with any of them stalled, replaced or dead.    *)
THEOREM DaemonUsesLedger == Spec => QueueSpec
  <1>1. Init => IInv /\ HolderInv /\ Queue!Init
        BY InitTypes, QueueInit
  <1>2. IInv /\ HolderInv /\ [Next]_vars => IInv' /\ HolderInv' /\ [Queue!Next]_(Queue!vars)
        BY StepTypes, QueueStep
  <1> QED BY <1>1, <1>2, PTL DEF Spec, QueueSpec, Queue!Spec

=============================================================================
