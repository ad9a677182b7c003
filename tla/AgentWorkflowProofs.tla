------------------------ MODULE AgentWorkflowProofs ------------------------
(***************************************************************************)
(* Proofs about AgentWorkflow, for any operators, executors, plans, ids    *)
(* and bounds: the handoff accepts only work on the very ACTIVE document,  *)
(* uninstall restores the target, an ACTIVE task has a whole installation  *)
(* under it, and only its own next attempt replaces it.                    *)
(*                                                                         *)
(* Ids, attempts and result paths are used again and say nothing; what     *)
(* carries the proof is that a document is new when it is written, and a   *)
(* commit holds only documents that were ACTIVE before it. So a result     *)
(* whose source commit holds the ACTIVE document was begun under it.       *)
(* The rest is about one command at a time: what its first step checked    *)
(* stays true but for its own work, and the order of that work does it.    *)
(***************************************************************************)
EXTENDS AgentWorkflow, TLAPS

Pending(o) == cmd[o].step \in {"create", "resume"}

\* TypeOK, with cmd and work the functions and commits the sequence they are.
StepsInv ==
  /\ cmd \in [Operators -> CmdSteps]
  /\ work \in [Executors -> WorkSteps]
  /\ results \in [Paths -> {None} \cup Results]
  /\ commits \in Seq({None} \cup Tasks)
  /\ TypeOK

-----------------------------------------------------------------------------
LEMMA PlanLength == Len(Plan) \in Nat /\ Len(Plan) > 0 /\ \A i \in 1..Len(Plan) : Plan[i] \in Files
  BY AgentWorkflowAssumption DEF Files

LEMMA StepsInit == Init => StepsInv
  <1> SUFFICES ASSUME Init PROVE StepsInv
      OBVIOUS
  <1>1. commits \in Seq({None} \cup Tasks) /\ Len(commits) = 1 /\ commits[1] = None /\ DOMAIN commits = {1}
        BY DEF Init
  <1>2. Idle \in CmdSteps /\ Resting \in WorkSteps
        BY DEF Idle, Resting, CmdSteps, WorkSteps
  <1>3. files \in [Files -> {"absent", "user", "generated"}] /\ dirs \in SUBSET Dirs
        BY FoundAssumption DEF Init
  <1>4. results \in [Paths -> {None} \cup Results]
        BY DEF Init
  <1>5. cmd \in [Operators -> CmdSteps] /\ work \in [Executors -> WorkSteps]
        BY <1>2 DEF Init
  <1>6. manifest = None /\ task = None /\ companion = None /\ stamps = 0 /\ faults = 0 /\ overlap = FALSE
        BY DEF Init
  <1>7. Len(commits) \in 1..MaxCommits /\ stamps \in 0..MaxStamps /\ faults \in 0..MaxFaults
        BY <1>1, <1>6, AgentWorkflowAssumption
  <1>8. DOMAIN results = Paths /\ \A p \in Paths : results[p] \in {None} \cup Results
        BY <1>4
  <1>9. \A i \in DOMAIN commits : commits[i] \in {None} \cup Tasks
        BY <1>1
  <1>10. TypeOK
        BY <1>3, <1>5, <1>6, <1>7, <1>8, <1>9 DEF TypeOK
  <1> QED BY <1>1, <1>4, <1>5, <1>10 DEF StepsInv

(* The kinds of step of a command, told apart.                               *)
LEMMA CmdKinds ==
  ASSUME NEW c \in CmdSteps
  PROVE  /\ c.step \in {"install", "uninstall"} =>
              c \in [step : {"install", "uninstall"}, left : 0..Len(Plan), dirs : SUBSET Dirs]
         /\ c.step = "rmdir" => c \in [step : {"rmdir"}, dirs : SUBSET Dirs]
         /\ c.step \in {"create", "resume", "companion"} =>
              c \in [step : {"create", "resume", "companion"}, task : Tasks]
  BY DEF CmdSteps

LEMMA WorkKinds ==
  ASSUME NEW w \in WorkSteps
  PROVE  /\ w.step = "run" => w \in [step : {"run"}, of : Tasks, source : 1..MaxCommits]
         /\ w.step = "published" => w \in [step : {"published"}, of : Tasks]
  BY DEF WorkSteps

LEMMA StepsIn ==
  /\ Idle \in CmdSteps /\ Resting \in WorkSteps
  /\ \A s \in {"install", "uninstall"}, n \in 0..Len(Plan), d \in SUBSET Dirs :
       [step |-> s, left |-> n, dirs |-> d] \in CmdSteps
  /\ \A d \in SUBSET Dirs : [step |-> "rmdir", dirs |-> d] \in CmdSteps
  /\ \A s \in {"create", "resume", "companion"}, t \in Tasks : [step |-> s, task |-> t] \in CmdSteps
  /\ \A t \in Tasks, n \in 1..MaxCommits : [step |-> "run", of |-> t, source |-> n] \in WorkSteps
  /\ \A t \in Tasks : [step |-> "published", of |-> t] \in WorkSteps
  /\ [step |-> "accepted"] \in WorkSteps /\ [step |-> "clean"] \in WorkSteps
  BY DEF CmdSteps, WorkSteps, Idle, Resting

LEMMA TaskFields ==
  ASSUME NEW t \in Tasks
  PROVE  /\ t.at \in 1..MaxStamps /\ t.id \in Ids /\ t.attempt \in 1..MaxAttempts
         /\ t.companion \in BOOLEAN /\ t.source \in 0..MaxCommits
         /\ PathOf(t) \in Paths
  BY DEF Tasks, PathOf, Paths, Latest

\* What a command does to its own step keeps the step of every other one.
LEMMA GotoTypes ==
  ASSUME cmd \in [Operators -> CmdSteps], NEW o \in Operators, NEW c \in CmdSteps, Goto(o, c)
  PROVE  /\ cmd' \in [Operators -> CmdSteps] /\ cmd'[o] = c
         /\ \A x \in Operators \ {o} : cmd'[x] = cmd[x]
  BY DEF Goto

LEMMA DoTypes ==
  ASSUME work \in [Executors -> WorkSteps], NEW e \in Executors, NEW w \in WorkSteps, Do(e, w)
  PROVE  /\ work' \in [Executors -> WorkSteps] /\ work'[e] = w
         /\ \A x \in Executors \ {e} : work'[x] = work[x]
         /\ cmd' = cmd /\ stamps' = stamps
  BY DEF Do

\* The document task create writes, and the one task resume writes.
Created(id, c, p) ==
  [at |-> stamps + 1, id |-> id, attempt |-> 1, companion |-> c,
   source |-> IF p THEN Len(commits) ELSE Latest]

LEMMA CreatedType ==
  ASSUME StepsInv, stamps < MaxStamps, NEW id \in Ids, NEW c \in Companions, NEW p \in Pinned
  PROVE  Created(id, c, p) \in Tasks /\ Created(id, c, p).at = stamps + 1
         /\ Created(id, c, p).source \in 0..Len(commits)
  <1>1. stamps + 1 \in 1..MaxStamps /\ 1 \in 1..MaxAttempts /\ c \in BOOLEAN
        BY AgentWorkflowAssumption DEF StepsInv, TypeOK
  <1>2. Len(commits) \in 1..MaxCommits
        BY DEF StepsInv, TypeOK
  <1>3. (IF p THEN Len(commits) ELSE Latest) \in 0..Len(commits)
        BY <1>2, AgentWorkflowAssumption DEF Latest
  <1>4. (IF p THEN Len(commits) ELSE Latest) \in Latest..MaxCommits
        BY <1>2, AgentWorkflowAssumption DEF Latest
  <1> QED BY <1>1, <1>3, <1>4 DEF Created, Tasks

LEMMA ResumedType ==
  ASSUME StepsInv, stamps < MaxStamps, NEW t \in Tasks, t.attempt < MaxAttempts
  PROVE  /\ NextAttempt(t) \in Tasks /\ NextAttempt(t).at = stamps + 1
         /\ NextAttempt(t).source = t.source
         /\ NextAttempt(t).id = t.id /\ NextAttempt(t).attempt = t.attempt + 1
  <1>1. stamps + 1 \in 1..MaxStamps /\ t.attempt + 1 \in 1..MaxAttempts
        BY AgentWorkflowAssumption DEF StepsInv, TypeOK, Tasks
  <1> QED BY <1>1 DEF NextAttempt, Tasks

LEMMA StepsStep == StepsInv /\ [Next]_vars => StepsInv'
  <1> SUFFICES ASSUME StepsInv, [Next]_vars PROVE StepsInv'
      OBVIOUS
  <1>0. /\ cmd \in [Operators -> CmdSteps] /\ work \in [Executors -> WorkSteps]
        /\ TypeOK
        BY DEF StepsInv
  <1> DEFINE Target == /\ files' \in [Files -> {"absent", "user", "generated"}]
                       /\ dirs' \in SUBSET Dirs
                       /\ manifest' \in {None} \cup SUBSET Dirs
             Docs == task' \in {None} \cup Tasks /\ companion' \in {None} \cup Tasks
             Log == results' = results /\ commits' = commits
             Clock == stamps' \in 0..MaxStamps /\ faults' \in 0..MaxFaults /\ overlap' \in BOOLEAN
  <1>a. UNCHANGED target => Target
        BY <1>0 DEF TypeOK, target
  <1>b. UNCHANGED taskVars => Docs
        BY <1>0 DEF TypeOK, taskVars
  <1>c. stamps' = stamps /\ faults' = faults /\ overlap' = overlap => Clock
        BY <1>0 DEF TypeOK
  <1>1. ASSUME cmd' \in [Operators -> CmdSteps], work' \in [Executors -> WorkSteps],
               Target, Docs, Clock, results' \in [Paths -> {None} \cup Results],
               commits' \in Seq({None} \cup Tasks), Len(commits') \in 1..MaxCommits
        PROVE  StepsInv'
        BY <1>1 DEF StepsInv, TypeOK
  <1>2. Log => /\ results' \in [Paths -> {None} \cup Results]
               /\ commits' \in Seq({None} \cup Tasks) /\ Len(commits') \in 1..MaxCommits
        BY DEF StepsInv, TypeOK
  <1>3. ASSUME NEW o \in Operators, NEW c \in CmdSteps, Start(o, c), stamps' \in 0..MaxStamps
        PROVE  StepsInv'
    <2>1. /\ Log /\ UNCHANGED <<target, taskVars>> /\ work' = work
          /\ cmd' \in [Operators -> CmdSteps]
          BY <1>0, <1>3 DEF Start
    <2>2. Clock
          BY <1>0, <1>3 DEF Start, TypeOK
    <2> QED BY <1>0, <1>1, <1>2, <1>a, <1>b, <2>1, <2>2
  <1>4. ASSUME NEW o \in Operators, NEW c \in CmdSteps, Goto(o, c), Target, Docs, Log,
               UNCHANGED <<work, stamps, history>>
        PROVE  StepsInv'
    <2>1. Clock
          BY <1>4, <1>c DEF history
    <2>2. cmd' \in [Operators -> CmdSteps] /\ work' = work
          BY <1>0, <1>4, GotoTypes
    <2> QED BY <1>0, <1>1, <1>2, <1>4, <2>1, <2>2
  <1>5. ASSUME NEW e \in Executors, NEW w \in WorkSteps, Do(e, w), Target, Docs, commits' = commits,
               results' \in [Paths -> {None} \cup Results]
        PROVE  StepsInv'
    <2>1. Clock
          BY <1>5, <1>c DEF Do, history
    <2>2. cmd' = cmd /\ work' \in [Executors -> WorkSteps]
          BY <1>0, <1>5, DoTypes
    <2>3. commits' \in Seq({None} \cup Tasks) /\ Len(commits') \in 1..MaxCommits
          BY <1>5 DEF StepsInv, TypeOK
    <2> QED BY <1>0, <1>1, <1>5, <2>1, <2>2, <2>3
  <1>6. ASSUME NEW o \in Operators, Install(o) PROVE StepsInv'
    <2>1. [step |-> "install", left |-> Len(Plan), dirs |-> Dirs \ dirs] \in CmdSteps
          BY StepsIn, PlanLength
    <2>2. Start(o, [step |-> "install", left |-> Len(Plan), dirs |-> Dirs \ dirs])
          /\ stamps' \in 0..MaxStamps
          BY <1>0, <1>6 DEF Install, TypeOK
    <2> QED BY <1>3, <2>1, <2>2
  <1>7. ASSUME NEW o \in Operators, Uninstall(o) PROVE StepsInv'
    <2>1. [step |-> "uninstall", left |-> Len(Plan), dirs |-> manifest] \in CmdSteps
          BY <1>0, <1>7, StepsIn, PlanLength DEF Uninstall, TypeOK
    <2>2. Start(o, [step |-> "uninstall", left |-> Len(Plan), dirs |-> manifest])
          /\ stamps' \in 0..MaxStamps
          BY <1>0, <1>7 DEF Uninstall, TypeOK
    <2> QED BY <1>3, <2>1, <2>2
  <1>8. ASSUME NEW o \in Operators, NEW id \in Ids, NEW c \in Companions, NEW p \in Pinned,
               TaskCreate(o, id, c, p)
        PROVE  StepsInv'
    <2>1. Created(id, c, p) \in Tasks /\ stamps' \in 0..MaxStamps
          BY <1>0, <1>8, CreatedType, AgentWorkflowAssumption DEF TaskCreate, TypeOK
    <2>2. Start(o, [step |-> "create", task |-> Created(id, c, p)])
          BY <1>8 DEF TaskCreate, Created
    <2> QED BY <1>3, <2>1, <2>2, StepsIn
  <1>9. ASSUME NEW o \in Operators, TaskResume(o) PROVE StepsInv'
    <2>1. NextAttempt(task) \in Tasks /\ stamps' \in 0..MaxStamps
          BY <1>0, <1>9, ResumedType, AgentWorkflowAssumption DEF TaskResume, TypeOK
    <2>2. Start(o, [step |-> "resume", task |-> NextAttempt(task)])
          BY <1>9 DEF TaskResume
    <2> QED BY <1>3, <2>1, <2>2, StepsIn
  <1>10. ASSUME NEW o \in Operators, InstallFile(o) \/ UninstallFile(o) PROVE StepsInv'
    <2>1. /\ cmd[o] \in [step : {"install", "uninstall"}, left : 0..Len(Plan), dirs : SUBSET Dirs]
          /\ cmd[o].left > 0
          BY <1>0, <1>10, CmdKinds DEF InstallFile, UninstallFile
    <2>2. [cmd[o] EXCEPT !.left = @ - 1] \in CmdSteps
      <3>1. cmd[o].left - 1 \in 0..Len(Plan)
            BY <2>1, PlanLength
      <3>2. [cmd[o] EXCEPT !.left = @ - 1] \in
              [step : {"install", "uninstall"}, left : 0..Len(Plan), dirs : SUBSET Dirs]
            BY <2>1, <3>1
      <3> QED BY <3>2 DEF CmdSteps
    <2>3. Next1(cmd[o]) \in Files
      <3>1. Len(Plan) - cmd[o].left + 1 \in 1..Len(Plan)
            BY <2>1, PlanLength
      <3> QED BY <3>1, PlanLength DEF Next1
    <2>4. Target
          BY <1>0, <1>10, <2>3 DEF InstallFile, UninstallFile, TypeOK, Dirs
    <2>5. /\ Goto(o, [cmd[o] EXCEPT !.left = @ - 1]) /\ Docs /\ Log
          /\ UNCHANGED <<work, stamps, history>>
          BY <1>10, <1>b DEF InstallFile, UninstallFile
    <2> QED BY <1>4, <2>2, <2>4, <2>5
  <1>11. ASSUME NEW o \in Operators, InstallManifest(o) PROVE StepsInv'
    <2>1. cmd[o].dirs \in SUBSET Dirs
          BY <1>0, <1>11, CmdKinds DEF InstallManifest
    <2>2. Target /\ Docs /\ Log /\ Goto(o, Idle) /\ UNCHANGED <<work, stamps, history>>
          BY <1>0, <1>11, <1>b, <2>1 DEF InstallManifest, TypeOK
    <2> QED BY <1>4, <2>2, StepsIn
  <1>12. ASSUME NEW o \in Operators, UninstallManifest(o) PROVE StepsInv'
    <2>1. cmd[o].dirs \in SUBSET Dirs
          BY <1>0, <1>12, CmdKinds DEF UninstallManifest
    <2>2. [step |-> "rmdir", dirs |-> cmd[o].dirs] \in CmdSteps
          BY <2>1, StepsIn
    <2>3. /\ Target /\ Docs /\ Log /\ UNCHANGED <<work, stamps, history>>
          /\ Goto(o, [step |-> "rmdir", dirs |-> cmd[o].dirs])
          BY <1>0, <1>12, <1>b DEF UninstallManifest, TypeOK
    <2> QED BY <1>4, <2>2, <2>3
  <1>13. ASSUME NEW o \in Operators, UninstallDirs(o) PROVE StepsInv'
    <2>1. Target /\ Docs /\ Log /\ Goto(o, Idle) /\ UNCHANGED <<work, stamps, history>>
          BY <1>0, <1>13, <1>b DEF UninstallDirs, TypeOK
    <2> QED BY <1>4, <2>1, StepsIn
  <1>14. ASSUME NEW o \in Operators, WriteTask(o) \/ WriteCompanion(o) PROVE StepsInv'
    <2>1. cmd[o].task \in Tasks
          BY <1>0, <1>14, CmdKinds DEF WriteTask, WriteCompanion
    <2>2. AfterTask(cmd[o].task) \in CmdSteps /\ Idle \in CmdSteps
          BY <2>1, StepsIn DEF AfterTask
    <2>3. Target /\ Docs /\ Log /\ UNCHANGED <<work, stamps, history>>
          BY <1>0, <1>14, <1>a, <2>1, FoundAssumption DEF WriteTask, WriteCompanion, TypeOK
    <2>4. Goto(o, AfterTask(cmd[o].task)) \/ Goto(o, Idle)
          BY <1>14 DEF WriteTask, WriteCompanion
    <2> QED BY <1>4, <2>2, <2>3, <2>4
  <1>15. ASSUME NEW o \in Operators, Crash(o) PROVE StepsInv'
    <2>1. Goto(o, Idle) /\ UNCHANGED <<target, taskVars, work>> /\ Log
          BY <1>15 DEF Crash
    <2>2. Clock
          BY <1>0, <1>15, AgentWorkflowAssumption DEF Crash, TypeOK
    <2>3. cmd' \in [Operators -> CmdSteps] /\ work' = work
          BY <1>0, <2>1, GotoTypes, StepsIn
    <2> QED BY <1>0, <1>1, <1>2, <1>a, <1>b, <2>1, <2>2, <2>3
  <1>16. ASSUME NEW e \in Executors, Begin(e) PROVE StepsInv'
    <2>1. task \in Tasks /\ Len(commits) \in 1..MaxCommits
          BY <1>0, <1>16 DEF Begin, TypeOK
    <2> DEFINE w == [step |-> "run", of |-> task,
                     source |-> IF task.source = Latest THEN Len(commits) ELSE task.source]
    <2>2. w \in WorkSteps
      <3>1. (IF task.source = Latest THEN Len(commits) ELSE task.source) \in 1..MaxCommits
            BY <2>1, TaskFields DEF Latest
      <3> QED BY <2>1, <3>1, StepsIn
    <2>3. Do(e, w) /\ UNCHANGED <<target, taskVars, results, commits>>
          BY <1>16 DEF Begin
    <2> QED BY <1>5, <1>a, <1>b, <2>2, <2>3 DEF StepsInv
  <1>17. ASSUME NEW e \in Executors, NEW s \in {"PASS", "BLOCKED"}, Publish(e, s) PROVE StepsInv'
    <2>1. work[e].of \in Tasks /\ work[e].source \in 1..MaxCommits
          BY <1>0, <1>17, WorkKinds DEF Publish
    <2> DEFINE t == work[e].of
               r == [task_id |-> t.id, path |-> PathOf(t), source |-> work[e].source,
                     status |-> s, of |-> t]
    <2>2. r \in Results
          BY <2>1, TaskFields DEF Results
    <2>3. results' = [results EXCEPT ![PathOf(t)] = r] /\ Do(e, [step |-> "published", of |-> t])
          BY <1>17 DEF Publish
    <2>4. results' \in [Paths -> {None} \cup Results]
          BY <2>2, <2>3 DEF StepsInv
    <2>5. Target /\ Docs /\ commits' = commits
          BY <1>0, <1>17, <1>b, FoundAssumption DEF Publish, TypeOK
    <2>6. [step |-> "published", of |-> t] \in WorkSteps
          BY <2>1, StepsIn
    <2> QED BY <1>5, <2>3, <2>4, <2>5, <2>6
  <1>18. ASSUME NEW e \in Executors, Accept(e) \/ Remove(e) \/ Clean(e) \/ ExecutorDies(e)
         PROVE  StepsInv'
    <2>1. PICK w \in {Resting, [step |-> "accepted"], [step |-> "clean"]} : Do(e, w)
      <3>1. CASE Accept(e)
            BY <3>1 DEF Accept
      <3>2. CASE Remove(e) \/ Clean(e) \/ ExecutorDies(e)
            BY <3>2 DEF Remove, Clean, ExecutorDies
      <3> QED BY <1>18, <3>1, <3>2
    <2>2. Target /\ commits' = commits /\ results' = results
          BY <1>18, <1>a DEF Accept, Remove, Clean, ExecutorDies
    <2>3. Docs
          BY <1>0, <1>18, <1>b DEF Accept, Remove, Clean, ExecutorDies, TypeOK
    <2> QED BY <1>5, <2>1, <2>2, <2>3, StepsIn DEF StepsInv
  <1>19. ASSUME Abandon \/ Commit PROVE StepsInv'
    <2>1. Target /\ results' = results /\ cmd' = cmd /\ work' = work
          BY <1>19, <1>a DEF Abandon, Commit
    <2>2. Docs /\ Clock
          BY <1>0, <1>19, <1>b, <1>c DEF Abandon, Commit, TypeOK, history
    <2>3. commits' \in Seq({None} \cup Tasks) /\ Len(commits') \in 1..MaxCommits
      <3>1. task \in {None} \cup Tasks /\ commits \in Seq({None} \cup Tasks) /\ Len(commits) \in 1..MaxCommits
            BY DEF StepsInv, TypeOK
      <3>2. CASE Abandon
            BY <3>1, <3>2 DEF Abandon
      <3>3. CASE Commit
            BY <3>1, <3>3, AgentWorkflowAssumption DEF Commit
      <3> QED BY <1>19, <3>2, <3>3
    <2> QED BY <1>0, <1>1, <2>1, <2>2, <2>3 DEF StepsInv
  <1>20. CASE UNCHANGED vars
    <2>1. Target /\ Docs /\ Clock /\ Log /\ cmd' = cmd /\ work' = work
          BY <1>20, <1>a, <1>b, <1>c DEF vars, history
    <2> QED BY <1>0, <1>1, <1>2, <2>1
  <1> QED BY <1>6, <1>7, <1>8, <1>9, <1>10, <1>11, <1>12, <1>13, <1>14, <1>15, <1>16, <1>17,
             <1>18, <1>19, <1>20 DEF Next

(* The state and the results are always of the kinds their variables say:    *)
(* install, create, resume, publish and the handoff leave whole documents.   *)
THEOREM FilesTypeCorrect == Spec => []TypeOK
  <1>1. Init => StepsInv
        BY StepsInit
  <1>2. StepsInv /\ [Next]_vars => StepsInv'
        BY StepsStep
  <1>3. StepsInv => TypeOK
        BY DEF StepsInv
  <1> QED BY <1>1, <1>2, <1>3, PTL DEF Spec

-----------------------------------------------------------------------------
(* What makes a result's source commit tell of the document it was made for: *)
(* a document on its way to ACTIVE is in no commit and is not ACTIVE yet, so *)
(* a commit made before a result never comes to hold the ACTIVE document.    *)

Known(t) == \/ task # None /\ task = t
            \/ \E i \in 1..Len(commits) : commits[i] # None /\ commits[i] = t

Stamped ==
  /\ \A t \in Tasks : Known(t) => t.at <= stamps
  /\ \A o \in Operators : Pending(o) => cmd[o].task.at <= stamps

Unwritten ==
  \A o \in Operators : Pending(o) =>
    /\ ~Known(cmd[o].task)
    /\ \A x \in Operators \ {o} : Pending(x) => cmd[x].task # cmd[o].task

Sourced ==
  /\ task # None => task.source <= Len(commits)
  /\ \A o \in Operators : Pending(o) => cmd[o].task.source <= Len(commits)

\* Work on a document, from a source commit, shows it is for that document.
Tells(of, source) ==
  /\ source \in 1..Len(commits)
  /\ task # None /\ commits[source] = task => of = task

WorkTells == \A e \in Executors : work[e].step = "run" => Tells(work[e].of, work[e].source)
ResultsTell == \A p \in Paths : results[p] # None => Tells(results[p].of, results[p].source)

FreshInv == StepsInv /\ Stamped /\ Unwritten /\ Sourced /\ WorkTells /\ ResultsTell

LEMMA FreshInit == Init => FreshInv
  <1> SUFFICES ASSUME Init PROVE FreshInv
      OBVIOUS
  <1>1. StepsInv
        BY StepsInit
  <1>2. Len(commits) = 1 /\ commits[1] = None /\ task = None
        BY DEF Init
  <1>3. \A o \in Operators : ~Pending(o)
        BY DEF Init, Pending, Idle
  <1>4. \A t : ~Known(t)
        BY <1>2 DEF Known
  <1>5. WorkTells /\ ResultsTell
        BY DEF Init, Resting, WorkTells, ResultsTell
  <1> QED BY <1>1, <1>2, <1>3, <1>4, <1>5 DEF FreshInv, Stamped, Unwritten, Sourced

(* A step that writes no document keeps all this: the ACTIVE task stays or   *)
(* goes, no command gets one to write, no commit, work or result appears.    *)
LEMMA QuietStep ==
  ASSUME FreshInv, StepsInv', task' \in {task, None}, commits' = commits, stamps' = stamps,
         \A o \in Operators : Pending(o)' => Pending(o) /\ cmd'[o] = cmd[o],
         \A e \in Executors : work'[e].step = "run" => work'[e] = work[e],
         results' = results
  PROVE  FreshInv'
  <1>1. \A t : Known(t)' => Known(t)
        BY DEF Known
  <1>2. Stamped'
        BY <1>1 DEF FreshInv, Stamped
  <1>3. Unwritten'
        BY <1>1 DEF FreshInv, Unwritten
  <1>4. Sourced'
        BY DEF FreshInv, Sourced
  <1>5. \A of, source : Tells(of, source) => Tells(of, source)'
        BY DEF Tells
  <1>6. WorkTells' /\ ResultsTell'
        BY <1>5 DEF FreshInv, WorkTells, ResultsTell
  <1> QED BY <1>2, <1>3, <1>4, <1>6 DEF FreshInv

(* A command that begins with a document of a new stamp.                     *)
LEMMA StartsNew ==
  ASSUME FreshInv, StepsInv', NEW o \in Operators, NEW c \in CmdSteps, Start(o, c),
         c.step \in {"create", "resume"}, c.task \in Tasks, c.task.at = stamps + 1,
         c.task.source <= Len(commits), stamps' = stamps + 1
  PROVE  FreshInv'
  <1>1. /\ task' = task /\ commits' = commits /\ work' = work /\ results' = results
        BY DEF Start, taskVars
  <1>2. cmd'[o] = c /\ \A x \in Operators \ {o} : cmd'[x] = cmd[x]
        BY DEF Start, FreshInv, StepsInv
  <1>3. \A x \in Operators \ {o} : Pending(x)' = Pending(x)
        BY <1>2 DEF Pending
  <1>4. stamps \in Nat
        BY AgentWorkflowAssumption DEF FreshInv, StepsInv, TypeOK
  <1>5. \A t : Known(t)' = Known(t)
        BY <1>1 DEF Known
  <1>6. \A x \in Operators : Pending(x) => cmd[x].task \in Tasks /\ cmd[x].task.at \in Nat
    <2> SUFFICES ASSUME NEW x \in Operators, Pending(x)
                 PROVE  cmd[x].task \in Tasks /\ cmd[x].task.at \in Nat
        OBVIOUS
    <2>1. cmd[x].task \in Tasks
          BY CmdKinds DEF Pending, FreshInv, StepsInv
    <2> QED BY <2>1, TaskFields, AgentWorkflowAssumption
  <1>7. \A t \in Tasks : t.at \in Nat
        BY TaskFields, AgentWorkflowAssumption
  <1>8. Stamped'
    <2>1. \A t \in Tasks : Known(t)' => t.at <= stamps'
          BY <1>4, <1>5, <1>7 DEF FreshInv, Stamped
    <2>2. \A x \in Operators : Pending(x)' => cmd'[x].task.at <= stamps'
          BY <1>2, <1>3, <1>4, <1>6 DEF FreshInv, Stamped
    <2> QED BY <2>1, <2>2 DEF Stamped
  <1>9. ~Known(c.task)
        BY <1>4 DEF FreshInv, Stamped
  <1>10. \A x \in Operators : Pending(x) => cmd[x].task # c.task
        BY <1>4 DEF FreshInv, Stamped
  <1>11. Unwritten'
        BY <1>2, <1>3, <1>5, <1>9, <1>10 DEF FreshInv, Unwritten
  <1>12. Sourced'
        BY <1>1, <1>2, <1>3 DEF FreshInv, Sourced
  <1>13. WorkTells' /\ ResultsTell'
        BY <1>1 DEF FreshInv, WorkTells, ResultsTell, Tells
  <1> QED BY <1>8, <1>11, <1>12, <1>13 DEF FreshInv

(* The rename that makes a pending document the ACTIVE one: no commit holds  *)
(* it, so no work or result of before can be taken for its own.              *)
LEMMA WritesNew ==
  ASSUME FreshInv, StepsInv', NEW o \in Operators, WriteTask(o)
  PROVE  FreshInv'
  <1> DEFINE t == cmd[o].task
  <1>1. /\ Pending(o) /\ task' = t /\ commits' = commits /\ stamps' = stamps
        /\ work' = work /\ results' = results
        BY DEF WriteTask, Pending, history
  <1>2. /\ cmd'[o] = AfterTask(t) /\ ~Pending(o)'
        /\ \A x \in Operators \ {o} : cmd'[x] = cmd[x] /\ Pending(x)' = Pending(x)
        BY DEF WriteTask, Goto, FreshInv, StepsInv, AfterTask, Idle, Pending
  <1>3. ~Known(t)
        BY <1>1 DEF FreshInv, Unwritten
  <1>4. \A u : Known(u)' => Known(u) \/ u = t
        BY <1>1 DEF Known
  <1>5. Stamped'
        BY <1>1, <1>2, <1>4 DEF FreshInv, Stamped
  <1>6. Unwritten'
        BY <1>1, <1>2, <1>4 DEF FreshInv, Unwritten
  <1>7. Sourced'
        BY <1>1, <1>2 DEF FreshInv, Sourced
  <1>8. \A i \in 1..Len(commits) : t # None => commits[i] # t
        BY <1>3 DEF Known
  <1>9. WorkTells' /\ ResultsTell'
        BY <1>1, <1>8 DEF FreshInv, WorkTells, ResultsTell, Tells
  <1> QED BY <1>5, <1>6, <1>7, <1>9 DEF FreshInv

\* Work begins on the ACTIVE document itself, from a commit there is.
LEMMA BeginsOnActive ==
  ASSUME FreshInv, StepsInv', NEW e \in Executors, Begin(e)
  PROVE  FreshInv'
  <1> DEFINE s == IF task.source = Latest THEN Len(commits) ELSE task.source
             w == [step |-> "run", of |-> task, source |-> s]
  <1>1. /\ task' = task /\ commits' = commits /\ stamps' = stamps
        /\ cmd' = cmd /\ results' = results /\ task # None
        BY DEF Begin, Do, taskVars
  <1>2. /\ work'[e] = w /\ \A x \in Executors \ {e} : work'[x] = work[x]
        BY DEF Begin, Do, FreshInv, StepsInv
  <1>3. s \in 1..Len(commits)
    <2>1. task \in Tasks /\ Len(commits) \in 1..MaxCommits /\ task.source <= Len(commits)
          BY <1>1 DEF FreshInv, StepsInv, TypeOK, Sourced
    <2> QED BY <2>1, TaskFields, AgentWorkflowAssumption DEF Latest
  <1>4. Tells(task, s)
        BY <1>3 DEF Tells
  <1>5. \A of, source : Tells(of, source)' = Tells(of, source)
        BY <1>1 DEF Tells
  <1>6. WorkTells'
        BY <1>2, <1>4, <1>5 DEF FreshInv, WorkTells
  <1>7. ResultsTell' /\ Sourced'
        BY <1>1, <1>5 DEF FreshInv, ResultsTell, Sourced, Pending
  <1>8. \A u : Known(u)' = Known(u)
        BY <1>1 DEF Known
  <1>9. Stamped' /\ Unwritten'
        BY <1>1, <1>8 DEF FreshInv, Stamped, Unwritten, Pending
  <1> QED BY <1>6, <1>7, <1>9 DEF FreshInv

\* A result says what its work said.
LEMMA PublishesWork ==
  ASSUME FreshInv, StepsInv', NEW e \in Executors, NEW s \in {"PASS", "BLOCKED"}, Publish(e, s)
  PROVE  FreshInv'
  <1> DEFINE t == work[e].of
             r == [task_id |-> t.id, path |-> PathOf(t), source |-> work[e].source,
                   status |-> s, of |-> t]
  <1>1. /\ task' = task /\ commits' = commits /\ stamps' = stamps /\ cmd' = cmd
        /\ work[e].step = "run" /\ results' = [results EXCEPT ![PathOf(t)] = r]
        BY DEF Publish, Do, taskVars
  <1>2. /\ work'[e] = [step |-> "published", of |-> t]
        /\ \A x \in Executors \ {e} : work'[x] = work[x]
        BY DEF Publish, Do, FreshInv, StepsInv
  <1>3. \A of, source : Tells(of, source)' = Tells(of, source)
        BY <1>1 DEF Tells
  <1>4. WorkTells'
        BY <1>2, <1>3 DEF FreshInv, WorkTells
  <1>5. Tells(r.of, r.source)
        BY <1>1 DEF FreshInv, WorkTells
  <1>6. \A p \in Paths : results'[p] \in {r, results[p]}
        BY <1>1 DEF FreshInv, StepsInv
  <1>7. ResultsTell'
    <2> HIDE DEF r
    <2>1. \A p \in Paths : results'[p] # None =>
            results'[p].source \in 1..Len(commits)
            /\ (task # None /\ commits[results'[p].source] = task => results'[p].of = task)
          BY <1>5, <1>6 DEF FreshInv, ResultsTell, Tells
    <2> QED BY <1>1, <2>1 DEF ResultsTell, Tells
  <1>8. \A u : Known(u)' = Known(u)
        BY <1>1 DEF Known
  <1>9. Stamped' /\ Unwritten' /\ Sourced'
        BY <1>1, <1>8 DEF FreshInv, Stamped, Unwritten, Sourced, Pending
  <1> QED BY <1>4, <1>7, <1>9 DEF FreshInv

\* A commit takes the ACTIVE document in: it was known, and no commit changes.
LEMMA CommitsActive ==
  ASSUME FreshInv, StepsInv', Commit
  PROVE  FreshInv'
  <1>1. /\ commits' = Append(commits, task) /\ task' = task /\ stamps' = stamps
        /\ cmd' = cmd /\ work' = work /\ results' = results
        BY DEF Commit, taskVars
  <1>2. commits \in Seq({None} \cup Tasks) /\ task \in {None} \cup Tasks
        BY DEF FreshInv, StepsInv, TypeOK
  <1>3. /\ Len(commits) \in Nat /\ Len(commits') = Len(commits) + 1
        /\ \A i \in 1..Len(commits) : commits'[i] = commits[i]
        /\ commits'[Len(commits) + 1] = task
        BY <1>1, <1>2
  <1>4. \A u : Known(u)' => Known(u)
        BY <1>1, <1>3 DEF Known
  <1>5. Stamped' /\ Unwritten'
        BY <1>1, <1>4 DEF FreshInv, Stamped, Unwritten, Pending
  <1>6. \A n \in Nat : n <= Len(commits) => n <= Len(commits')
        BY <1>3
  <1>7. /\ task # None => task.source \in Nat
        /\ \A o \in Operators : Pending(o) => cmd[o].task.source \in Nat
    <2>1. \A o \in Operators : Pending(o) => cmd[o].task \in Tasks
          BY CmdKinds DEF FreshInv, StepsInv, Pending
    <2> QED BY <1>2, <2>1, TaskFields, AgentWorkflowAssumption
  <1>8. Sourced'
        BY <1>1, <1>6, <1>7 DEF FreshInv, Sourced, Pending
  <1>9. \A of, source : Tells(of, source) => Tells(of, source)'
        BY <1>1, <1>3 DEF Tells
  <1>10. WorkTells' /\ ResultsTell'
        BY <1>1, <1>9 DEF FreshInv, WorkTells, ResultsTell
  <1> QED BY <1>5, <1>8, <1>10 DEF FreshInv

LEMMA FreshStep == FreshInv /\ [Next]_vars => FreshInv'
  <1> SUFFICES ASSUME FreshInv, [Next]_vars PROVE FreshInv'
      OBVIOUS
  <1>0. StepsInv /\ StepsInv' /\ cmd \in [Operators -> CmdSteps] /\ work \in [Executors -> WorkSteps]
        BY StepsStep DEF FreshInv, StepsInv
  <1>1. ASSUME NEW o \in Operators, NEW c, Goto(o, c), c.step \notin {"create", "resume"},
               task' \in {task, None}, UNCHANGED <<commits, results, work, stamps>>
        PROVE  FreshInv'
    <2>1. \A x \in Operators : Pending(x)' => Pending(x) /\ cmd'[x] = cmd[x]
          BY <1>0, <1>1 DEF Goto, Pending
    <2> QED BY <1>0, <1>1, <2>1, QuietStep
  <1>2. ASSUME NEW e \in Executors, NEW w, Do(e, w), w.step # "run",
               task' \in {task, None}, UNCHANGED <<commits, results>>
        PROVE  FreshInv'
    <2>1. \A x \in Executors : work'[x].step = "run" => work'[x] = work[x]
          BY <1>0, <1>2 DEF Do
    <2>2. cmd' = cmd /\ stamps' = stamps
          BY <1>2 DEF Do
    <2>3. \A x \in Operators : Pending(x)' => Pending(x) /\ cmd'[x] = cmd[x]
          BY <2>2 DEF Pending
    <2> QED BY <1>0, <1>2, <2>1, <2>2, <2>3, QuietStep
  <1>3. ASSUME NEW o \in Operators, Install(o) \/ Uninstall(o) PROVE FreshInv'
    <2>1. PICK c \in {[step |-> "install", left |-> Len(Plan), dirs |-> Dirs \ dirs],
                      [step |-> "uninstall", left |-> Len(Plan), dirs |-> manifest]} : Start(o, c)
          BY <1>3 DEF Install, Uninstall
    <2>2. c.step \notin {"create", "resume"}
          BY <2>1
    <2>3. Goto(o, c) /\ task' = task /\ UNCHANGED <<commits, results, work, stamps>>
          BY <1>3, <2>1 DEF Start, Goto, Install, Uninstall, taskVars
    <2> QED BY <1>1, <2>2, <2>3
  <1>4. ASSUME NEW o \in Operators, InstallFile(o) \/ UninstallFile(o) PROVE FreshInv'
    <2> DEFINE c == [cmd[o] EXCEPT !.left = @ - 1]
    <2>1. cmd[o] \in [step : {"install", "uninstall"}, left : 0..Len(Plan), dirs : SUBSET Dirs]
          BY <1>0, <1>4, CmdKinds DEF InstallFile, UninstallFile
    <2>2. c.step \notin {"create", "resume"}
          BY <2>1
    <2>3. Goto(o, c) /\ task' = task /\ UNCHANGED <<commits, results, work, stamps>>
          BY <1>4 DEF InstallFile, UninstallFile, taskVars
    <2> QED BY <1>1, <2>2, <2>3
  <1>5. ASSUME NEW o \in Operators,
               InstallManifest(o) \/ UninstallManifest(o) \/ UninstallDirs(o)
                 \/ WriteCompanion(o) \/ Crash(o)
        PROVE  FreshInv'
    <2>1. PICK c \in {Idle, [step |-> "rmdir", dirs |-> cmd[o].dirs]} : Goto(o, c)
          BY <1>5 DEF InstallManifest, UninstallManifest, UninstallDirs, WriteCompanion, Crash
    <2>2. c.step \notin {"create", "resume"}
          BY <2>1 DEF Idle
    <2>3. task' = task /\ UNCHANGED <<commits, results, work, stamps>>
          BY <1>5 DEF InstallManifest, UninstallManifest, UninstallDirs, WriteCompanion, Crash, taskVars
    <2> QED BY <1>1, <2>1, <2>2, <2>3
  <1>6. ASSUME NEW o \in Operators, NEW id \in Ids, NEW c \in Companions, NEW p \in Pinned,
               TaskCreate(o, id, c, p)
        PROVE  FreshInv'
    <2> DEFINE t == Created(id, c, p)
               m == [step |-> "create", task |-> t]
    <2>1. t \in Tasks /\ t.at = stamps + 1 /\ t.source <= Len(commits)
          BY <1>0, <1>6, CreatedType DEF TaskCreate, StepsInv, TypeOK
    <2>2. Start(o, m) /\ stamps' = stamps + 1
          BY <1>6 DEF TaskCreate, Created
    <2>3. m \in CmdSteps
          BY <2>1, StepsIn
    <2> HIDE DEF t
    <2>4. m.step \in {"create", "resume"} /\ m.task = t
          OBVIOUS
    <2> HIDE DEF m
    <2> QED BY <1>0, <2>1, <2>2, <2>3, <2>4, StartsNew
  <1>7. ASSUME NEW o \in Operators, TaskResume(o) PROVE FreshInv'
    <2> DEFINE t == NextAttempt(task)
               m == [step |-> "resume", task |-> t]
    <2>1. task # None /\ task \in Tasks /\ task.attempt < MaxAttempts /\ stamps < MaxStamps
          BY <1>0, <1>7 DEF TaskResume, StepsInv, TypeOK
    <2>2. t \in Tasks /\ t.at = stamps + 1 /\ t.source = task.source
          BY <1>0, <2>1, ResumedType
    <2>3. t.source <= Len(commits)
          BY <2>1, <2>2 DEF FreshInv, Sourced
    <2>4. Start(o, m) /\ stamps' = stamps + 1
          BY <1>7 DEF TaskResume
    <2>5. m \in CmdSteps
          BY <2>2, StepsIn
    <2> HIDE DEF t
    <2>6. m.step \in {"create", "resume"} /\ m.task = t
          OBVIOUS
    <2> HIDE DEF m
    <2> QED BY <1>0, <2>2, <2>3, <2>4, <2>5, <2>6, StartsNew
  <1>8. ASSUME NEW e \in Executors, Accept(e) \/ Remove(e) \/ Clean(e) \/ ExecutorDies(e)
        PROVE  FreshInv'
    <2>1. PICK w \in {Resting, [step |-> "accepted"], [step |-> "clean"]} : Do(e, w)
      <3>1. CASE Accept(e)
            BY <3>1 DEF Accept
      <3>2. CASE Remove(e) \/ Clean(e) \/ ExecutorDies(e)
            BY <3>2 DEF Remove, Clean, ExecutorDies
      <3> QED BY <1>8, <3>1, <3>2
    <2>2. w.step # "run"
          BY <2>1 DEF Resting
    <2>3. task' \in {task, None} /\ UNCHANGED <<commits, results>>
          BY <1>8 DEF Accept, Remove, Clean, ExecutorDies, taskVars
    <2> QED BY <1>2, <2>1, <2>2, <2>3
  <1>9. CASE Abandon \/ UNCHANGED vars
    <2>1. task' \in {task, None} /\ UNCHANGED <<commits, results, work, stamps, cmd>>
          BY <1>9 DEF Abandon, vars, taskVars
    <2>2. /\ \A x \in Operators : Pending(x)' => Pending(x) /\ cmd'[x] = cmd[x]
          /\ \A e \in Executors : work'[e].step = "run" => work'[e] = work[e]
          BY <2>1 DEF Pending
    <2> QED BY <1>0, <2>1, <2>2, QuietStep
  <1> QED BY <1>0, <1>3, <1>4, <1>5, <1>6, <1>7, <1>8, <1>9,
             WritesNew, BeginsOnActive, PublishesWork, CommitsActive DEF Next

(* What validate handoff accepts for a task on LATEST was made for this very *)
(* document, for any number of operators, executors, tasks, uses of the same *)
(* id, attempts and commits, and wherever a command or an executor dies.     *)
THEOREM HandoffsFresh == Spec => []HandoffIsFresh
  <1>1. Init => FreshInv
        BY FreshInit
  <1>2. FreshInv /\ [Next]_vars => FreshInv'
        BY FreshStep
  <1>3. FreshInv => HandoffIsFresh
        BY DEF FreshInv, ResultsTell, Tells, HandoffIsFresh, Handoff
  <1> QED BY <1>1, <1>2, <1>3, PTL DEF Spec

-----------------------------------------------------------------------------
(* One command at a time: as long as no two have overlapped, at most one is  *)
(* under way, and what it found when it began is still so but for its work.  *)

StepOf(o) == cmd[o].step
Setup == {"install", "uninstall", "rmdir"}

Solo == ~overlap => \A x, y \in Operators : cmd[x] # Idle /\ cmd[y] # Idle => x = y

LEMMA IdleStep ==
  ASSUME NEW c \in CmdSteps
  PROVE  c = Idle <=> c.step = "idle"
  <1>1. c \in [step : {"idle"}] \/ c.step # "idle"
        BY DEF CmdSteps
  <1>2. ASSUME c \in [step : {"idle"}] PROVE c = Idle
        BY <1>2 DEF Idle
  <1> QED BY <1>1, <1>2 DEF Idle

\* A step begins a command, goes on with one, or leaves them all alone.
LEMMA CmdMoves ==
  ASSUME StepsInv, [Next]_vars
  PROVE  /\ pre' = pre /\ (overlap => overlap') /\ died \subseteq died'
         /\ \/ UNCHANGED <<cmd, history>>
            \/ \E o \in Operators : \E c : Start(o, c)
            \/ \E o \in Operators : \E c : StepOf(o) # "idle" /\ Goto(o, c) /\ overlap' = overlap
  <1> DEFINE Goal == /\ pre' = pre /\ (overlap => overlap') /\ died \subseteq died'
                     /\ \/ UNCHANGED <<cmd, history>>
                        \/ \E o \in Operators : \E c : Start(o, c)
                        \/ \E o \in Operators : \E c :
                             StepOf(o) # "idle" /\ Goto(o, c) /\ overlap' = overlap
  <1>1. UNCHANGED <<cmd, history>> => Goal
        BY DEF history
  <1>2. ASSUME NEW o \in Operators, NEW c, Start(o, c) PROVE Goal
        BY <1>2 DEF Start
  <1>3. ASSUME NEW o \in Operators, NEW c, StepOf(o) # "idle", Goto(o, c),
               pre' = pre, overlap' = overlap, died \subseteq died'
        PROVE  Goal
        BY <1>3
  <1>4. ASSUME NEW o \in Operators,
               \/ Install(o) \/ Uninstall(o) \/ TaskResume(o)
               \/ \E id \in Ids, c \in Companions, p \in Pinned : TaskCreate(o, id, c, p)
        PROVE  Goal
        BY <1>2, <1>4 DEF Install, Uninstall, TaskResume, TaskCreate
  <1>5. ASSUME NEW o \in Operators,
               \/ InstallFile(o) \/ InstallManifest(o) \/ UninstallFile(o)
               \/ UninstallManifest(o) \/ UninstallDirs(o) \/ WriteTask(o) \/ WriteCompanion(o)
        PROVE  Goal
    <2>1. StepOf(o) # "idle" /\ UNCHANGED history
          BY <1>5 DEF InstallFile, InstallManifest, UninstallFile, UninstallManifest,
                      UninstallDirs, WriteTask, WriteCompanion, StepOf
    <2>2. \E c : Goto(o, c)
          BY <1>5 DEF InstallFile, InstallManifest, UninstallFile, UninstallManifest,
                      UninstallDirs, WriteTask, WriteCompanion
    <2> QED BY <1>3, <2>1, <2>2 DEF history
  <1>6. ASSUME NEW o \in Operators, Crash(o) PROVE Goal
    <2>1. cmd[o] \in CmdSteps
          BY DEF StepsInv
    <2>2. StepOf(o) # "idle"
          BY <1>6, <2>1, IdleStep DEF Crash, StepOf
    <2> QED BY <1>3, <1>6, <2>2 DEF Crash
  <1>7. ASSUME NEW e \in Executors,
               \/ Begin(e) \/ \E s \in {"PASS", "BLOCKED"} : Publish(e, s)
               \/ Accept(e) \/ Remove(e) \/ Clean(e) \/ ExecutorDies(e)
        PROVE  Goal
        BY <1>1, <1>7 DEF Begin, Publish, Accept, Remove, Clean, ExecutorDies, Do
  <1>8. CASE Abandon \/ Commit \/ UNCHANGED vars
        BY <1>1, <1>8 DEF Abandon, Commit, vars
  <1> QED BY <1>4, <1>5, <1>6, <1>7, <1>8 DEF Next

\* A command that begins without overlapping another is alone.
LEMMA StartsAlone ==
  ASSUME StepsInv, NEW o \in Operators, NEW c, Start(o, c), ~overlap'
  PROVE  /\ ~overlap /\ cmd'[o] = c
         /\ \A x \in Operators : cmd[x] = Idle
         /\ \A x \in Operators \ {o} : cmd'[x] = Idle
  BY DEF StepsInv, Start

\* Neither is anything else under way when one goes on.
LEMMA GoesAlone ==
  ASSUME StepsInv, Solo, ~overlap, NEW o \in Operators, StepOf(o) # "idle", NEW c, Goto(o, c)
  PROVE  /\ cmd'[o] = c
         /\ \A x \in Operators \ {o} : cmd[x] = Idle /\ cmd'[x] = Idle
  <1>1. cmd[o] # Idle
        BY DEF StepOf, Idle
  <1> QED BY <1>1 DEF StepsInv, Goto, Solo

LEMMA SoloStep == StepsInv /\ Solo /\ [Next]_vars => Solo'
  <1> SUFFICES ASSUME StepsInv, Solo, [Next]_vars, ~overlap',
                      NEW x \in Operators, NEW y \in Operators, cmd'[x] # Idle, cmd'[y] # Idle
               PROVE  x = y
      BY DEF Solo, Idle
  <1>1. CASE UNCHANGED <<cmd, history>>
        BY <1>1 DEF Solo, history
  <1>2. ASSUME NEW o \in Operators, NEW c, Start(o, c) PROVE x = y
        BY <1>2, StartsAlone
  <1>3. ASSUME NEW o \in Operators, NEW c, StepOf(o) # "idle", Goto(o, c), overlap' = overlap
        PROVE  x = y
        BY <1>3, GoesAlone
  <1> QED BY <1>1, <1>2, <1>3, CmdMoves

-----------------------------------------------------------------------------
(* What was found stays: no command has a directory of before to remove, and *)
(* over the user's files none of them begins.                                *)

Before == [f \in Files |-> IF f \in pre.files THEN "user" ELSE "absent"]

FoundKept ==
  /\ pre \in Found
  /\ pre.dirs \subseteq dirs
  /\ manifest # None => manifest \cap pre.dirs = {}
  /\ \A o \in Operators : StepOf(o) \in Setup => cmd[o].dirs \cap pre.dirs = {}

UserKept ==
  pre.files # {} =>
    /\ files = Before /\ manifest = None
    /\ \A o \in Operators : StepOf(o) \notin Setup

LEMMA FoundStep == StepsInv /\ FoundKept /\ [Next]_vars => FoundKept'
  <1> SUFFICES ASSUME StepsInv, FoundKept, [Next]_vars PROVE FoundKept'
      OBVIOUS
  <1>0. pre' = pre /\ cmd \in [Operators -> CmdSteps]
        BY CmdMoves DEF StepsInv
  <1>1. ASSUME NEW o \in Operators, NEW c, cmd' = [cmd EXCEPT ![o] = c],
               c.step \in Setup => c.dirs \cap pre.dirs = {},
               pre.dirs \subseteq dirs', manifest' # None => manifest' \cap pre.dirs = {}
        PROVE  FoundKept'
        BY <1>0, <1>1 DEF FoundKept, StepOf
  <1>2. ASSUME UNCHANGED <<cmd, manifest>>, pre.dirs \subseteq dirs' PROVE FoundKept'
        BY <1>0, <1>2 DEF FoundKept, StepOf
  <1>3. ASSUME NEW o \in Operators, NEW c, c.step \notin Setup, Start(o, c) PROVE FoundKept'
        BY <1>1, <1>3 DEF Start, FoundKept, target
  <1>4. ASSUME NEW o \in Operators, Install(o) PROVE FoundKept'
    <2> DEFINE c == [step |-> "install", left |-> Len(Plan), dirs |-> Dirs \ dirs]
    <2>1. Start(o, c) /\ c.dirs \cap pre.dirs = {}
          BY <1>4 DEF Install, FoundKept
    <2> QED BY <1>1, <2>1 DEF Start, target, FoundKept
  <1>5. ASSUME NEW o \in Operators, Uninstall(o) PROVE FoundKept'
    <2> DEFINE c == [step |-> "uninstall", left |-> Len(Plan), dirs |-> manifest]
    <2>1. Start(o, c) /\ c.dirs \cap pre.dirs = {}
          BY <1>5 DEF Uninstall, FoundKept
    <2> QED BY <1>1, <2>1 DEF Start, target, FoundKept
  <1>6. ASSUME NEW o \in Operators, NEW id \in Ids, NEW k \in Companions, NEW p \in Pinned,
               TaskCreate(o, id, k, p)
        PROVE  FoundKept'
    <2> DEFINE c == [step |-> "create", task |-> Created(id, k, p)]
    <2>1. Start(o, c) /\ c.step \notin Setup
          BY <1>6 DEF TaskCreate, Created, Setup
    <2> QED BY <1>3, <2>1
  <1>7. ASSUME NEW o \in Operators, TaskResume(o) PROVE FoundKept'
    <2> DEFINE c == [step |-> "resume", task |-> NextAttempt(task)]
    <2>1. Start(o, c) /\ c.step \notin Setup
          BY <1>7 DEF TaskResume, Setup
    <2> QED BY <1>3, <2>1
  <1>8. ASSUME NEW o \in Operators, InstallFile(o) \/ UninstallFile(o) PROVE FoundKept'
    <2> DEFINE c == [cmd[o] EXCEPT !.left = @ - 1]
    <2>1. /\ cmd[o] \in [step : {"install", "uninstall"}, left : 0..Len(Plan), dirs : SUBSET Dirs]
          /\ StepOf(o) \in Setup
          BY <1>0, <1>8, CmdKinds DEF InstallFile, UninstallFile, StepOf, Setup
    <2>2. c.dirs = cmd[o].dirs
          BY <2>1
    <2>3. cmd' = [cmd EXCEPT ![o] = c] /\ dirs \subseteq dirs' /\ manifest' = manifest
          BY <1>8 DEF InstallFile, UninstallFile, Goto
    <2> QED BY <1>1, <2>1, <2>2, <2>3 DEF FoundKept
  <1>9. ASSUME NEW o \in Operators, InstallManifest(o) PROVE FoundKept'
        BY <1>1, <1>9 DEF InstallManifest, Goto, Idle, FoundKept, StepOf, Setup
  <1>10. ASSUME NEW o \in Operators, UninstallManifest(o) PROVE FoundKept'
        BY <1>1, <1>10 DEF UninstallManifest, Goto, FoundKept, StepOf, Setup
  <1>11. ASSUME NEW o \in Operators, UninstallDirs(o) PROVE FoundKept'
        BY <1>1, <1>11 DEF UninstallDirs, Goto, Idle, FoundKept, StepOf, Setup
  <1>12. ASSUME NEW o \in Operators, WriteTask(o) \/ WriteCompanion(o) \/ Crash(o) PROVE FoundKept'
    <2>1. PICK c \in {Idle, [step |-> "companion", task |-> cmd[o].task]} : Goto(o, c)
          BY <1>12 DEF WriteTask, WriteCompanion, Crash, AfterTask
    <2>2. c.step \notin Setup /\ dirs \subseteq dirs' /\ manifest' = manifest
          BY <1>12, <2>1 DEF WriteTask, WriteCompanion, Crash, Idle, Setup, target
    <2> QED BY <1>1, <2>1, <2>2 DEF Goto, FoundKept
  <1>13. ASSUME NEW e \in Executors,
                \/ Begin(e) \/ \E s \in {"PASS", "BLOCKED"} : Publish(e, s)
                \/ Accept(e) \/ Remove(e) \/ Clean(e) \/ ExecutorDies(e)
         PROVE  FoundKept'
         BY <1>2, <1>13 DEF Begin, Publish, Accept, Remove, Clean, ExecutorDies, Do, target, FoundKept
  <1>14. CASE Abandon \/ Commit \/ UNCHANGED vars
         BY <1>2, <1>14 DEF Abandon, Commit, vars, target, FoundKept
  <1> QED BY <1>4, <1>5, <1>6, <1>7, <1>8, <1>9, <1>10, <1>11, <1>12, <1>13, <1>14 DEF Next

LEMMA UserStep == StepsInv /\ FoundKept /\ UserKept /\ [Next]_vars => UserKept'
  <1> SUFFICES ASSUME StepsInv, FoundKept, UserKept, [Next]_vars, pre'.files # {}
               PROVE  /\ files' = Before' /\ manifest' = None
                      /\ \A o \in Operators : StepOf(o)' \notin Setup
      BY DEF UserKept
  <1> DEFINE Goal == /\ files' = Before' /\ manifest' = None
                     /\ \A o \in Operators : StepOf(o)' \notin Setup
  <1>0. /\ pre' = pre /\ pre.files # {} /\ cmd \in [Operators -> CmdSteps]
        /\ files = Before /\ manifest = None
        /\ \A o \in Operators : cmd[o].step \notin Setup
        BY CmdMoves DEF StepsInv, UserKept, StepOf
  <1>1. ASSUME NEW o \in Operators, NEW c, cmd' = [cmd EXCEPT ![o] = c], c.step \notin Setup,
               files' = files, manifest' = manifest
        PROVE  Goal
        BY <1>0, <1>1 DEF StepOf, Before
  <1>2. ASSUME UNCHANGED <<cmd, files, manifest>> PROVE Goal
        BY <1>0, <1>2 DEF StepOf, Before
  <1>3. ASSUME NEW o \in Operators, Install(o) PROVE FALSE
    <2>1. PICK f \in Files : f \in pre.files
          BY <1>0, FoundAssumption DEF FoundKept
    <2>2. files[f] = "user"
          BY <1>0, <2>1 DEF Before
    <2> QED BY <1>3, <2>2 DEF Install, NoConflict, Exists
  <1>4. ASSUME NEW o \in Operators,
               \/ Uninstall(o) \/ InstallFile(o) \/ InstallManifest(o)
               \/ UninstallFile(o) \/ UninstallManifest(o) \/ UninstallDirs(o)
        PROVE  FALSE
        BY <1>0, <1>4 DEF Uninstall, InstallFile, InstallManifest, UninstallFile,
                          UninstallManifest, UninstallDirs, Setup
  <1>5. ASSUME NEW o \in Operators, NEW id \in Ids, NEW k \in Companions, NEW p \in Pinned,
               TaskCreate(o, id, k, p)
        PROVE  Goal
    <2> DEFINE c == [step |-> "create", task |-> Created(id, k, p)]
    <2>1. Start(o, c) /\ c.step \notin Setup
          BY <1>5 DEF TaskCreate, Created, Setup
    <2> QED BY <1>1, <2>1 DEF Start, target
  <1>6. ASSUME NEW o \in Operators, TaskResume(o) PROVE Goal
    <2> DEFINE c == [step |-> "resume", task |-> NextAttempt(task)]
    <2>1. Start(o, c) /\ c.step \notin Setup
          BY <1>6 DEF TaskResume, Setup
    <2> QED BY <1>1, <2>1 DEF Start, target
  <1>7. ASSUME NEW o \in Operators, WriteTask(o) \/ WriteCompanion(o) \/ Crash(o) PROVE Goal
    <2>1. PICK c \in {Idle, [step |-> "companion", task |-> cmd[o].task]} : Goto(o, c)
          BY <1>7 DEF WriteTask, WriteCompanion, Crash, AfterTask
    <2>2. c.step \notin Setup /\ files' = files /\ manifest' = manifest
          BY <1>7, <2>1 DEF WriteTask, WriteCompanion, Crash, Idle, Setup, target
    <2> QED BY <1>1, <2>1, <2>2 DEF Goto
  <1>8. ASSUME NEW e \in Executors,
               \/ Begin(e) \/ \E s \in {"PASS", "BLOCKED"} : Publish(e, s)
               \/ Accept(e) \/ Remove(e) \/ Clean(e) \/ ExecutorDies(e)
        PROVE  Goal
        BY <1>2, <1>8 DEF Begin, Publish, Accept, Remove, Clean, ExecutorDies, Do, target
  <1>9. CASE Abandon \/ Commit \/ UNCHANGED vars
        BY <1>2, <1>9 DEF Abandon, Commit, vars, target
  <1> QED BY <1>3, <1>4, <1>5, <1>6, <1>7, <1>8, <1>9 DEF Next

-----------------------------------------------------------------------------
(* An installation is whole or not there, but while its one command works:   *)
(* install fills the plan from its start, and uninstall empties it from its  *)
(* start, the marker first. So the marker tells of all the files, and a task *)
(* or a command about one stands on a whole installation.                    *)

Sound == ~overlap /\ "install" \notin died /\ pre.files = {}

\* The part of the plan an install or an uninstall has been through.
Through(c) == 1..(Len(Plan) - c.left)

WholeOrGone ==
  /\ manifest = None /\ (\A o \in Operators : StepOf(o) # "install") => NoConflict
  /\ manifest # None /\ Exists(Marker) => Healthy
  /\ HasActiveTask => Healthy

OnTheWay(c) ==
  /\ c.step = "install" => manifest = None /\ \A i \in Through(c) : Exists(Plan[i])
  /\ c.step = "uninstall" => /\ manifest # None /\ ~HasActiveTask
                             /\ \A i \in Through(c) : ~Exists(Plan[i])
  /\ c.step = "rmdir" => manifest = None
  /\ c.step \in {"create", "resume", "companion"} => Healthy

FilesInv == Sound => WholeOrGone /\ \A o \in Operators : OnTheWay(cmd[o])

LEMMA MarkerInPlan == Marker \in Files /\ Marker = Plan[1] /\ 1 \in 1..Len(Plan)
  BY PlanLength DEF Marker

\* One more file of the plan is behind an install or an uninstall.
LEMMA OneFurther ==
  ASSUME NEW c \in [step : {"install", "uninstall"}, left : 0..Len(Plan), dirs : SUBSET Dirs],
         c.left > 0
  PROVE  /\ [c EXCEPT !.left = @ - 1].step = c.step /\ [c EXCEPT !.left = @ - 1].dirs = c.dirs
         /\ Next1(c) \in Files
         /\ \A i \in Through([c EXCEPT !.left = @ - 1]) : i \in Through(c) \/ Plan[i] = Next1(c)
         /\ \E i \in Through([c EXCEPT !.left = @ - 1]) : i = 1
         /\ \A i \in Through([c EXCEPT !.left = @ - 1]) : Plan[i] \in Files
  <1> DEFINE d == [c EXCEPT !.left = @ - 1]
  <1>1. d.left = c.left - 1 /\ d.step = c.step /\ d.dirs = c.dirs /\ c.left \in 1..Len(Plan)
        BY PlanLength
  <1>2. Len(Plan) - d.left = Len(Plan) - c.left + 1 /\ Len(Plan) - c.left \in 0..(Len(Plan) - 1)
        BY <1>1, PlanLength
  <1>3. Next1(c) = Plan[Len(Plan) - c.left + 1]
        BY DEF Next1
  <1> HIDE DEF d
  <1>4. \A i \in Through(d) : i \in Through(c) \/ i = Len(Plan) - c.left + 1
        BY <1>1, <1>2, PlanLength DEF Through
  <1>5. 1 \in Through(d) /\ Len(Plan) - c.left + 1 \in 1..Len(Plan) /\ Through(d) \subseteq 1..Len(Plan)
        BY <1>1, <1>2, PlanLength DEF Through
  <1>6. Next1(c) \in Files /\ \A i \in Through(d) : Plan[i] \in Files
        BY <1>3, <1>5, PlanLength
  <1> QED BY <1>1, <1>3, <1>4, <1>5, <1>6 DEF d

(* The steps that change nothing of this: no file, and no new command.       *)
LEMMA FilesQuiet ==
  ASSUME FilesInv, UNCHANGED <<files, manifest, pre>>, HasActiveTask' => HasActiveTask,
         overlap => overlap', died \subseteq died',
         Sound' => \A o \in Operators : cmd'[o] = cmd[o] \/ (cmd'[o].step = "idle" /\ cmd[o].step # "install")
  PROVE  FilesInv'
  <1> SUFFICES ASSUME Sound' PROVE WholeOrGone' /\ \A o \in Operators : OnTheWay(cmd[o])'
      BY DEF FilesInv
  <1>1. Sound /\ WholeOrGone /\ \A o \in Operators : OnTheWay(cmd[o])
        BY DEF FilesInv, Sound
  <1>2. Healthy' = Healthy /\ NoConflict' = NoConflict /\ \A f : Exists(f)' = Exists(f)
        BY DEF Healthy, InstallationIsValid, NoConflict, Exists
  <1>3. WholeOrGone'
        BY <1>1, <1>2 DEF WholeOrGone, StepOf
  <1>4. \A o \in Operators : OnTheWay(cmd[o])'
        BY <1>1, <1>2 DEF OnTheWay
  <1> QED BY <1>3, <1>4

LEMMA FilesStep == StepsInv /\ Solo /\ FilesInv /\ [Next]_vars => FilesInv'
  <1> SUFFICES ASSUME StepsInv, Solo, FilesInv, [Next]_vars PROVE FilesInv'
      OBVIOUS
  <1> DEFINE Goal == WholeOrGone' /\ \A o \in Operators : OnTheWay(cmd[o])'
  <1>0. /\ cmd \in [Operators -> CmdSteps] /\ pre' = pre
        /\ (overlap => overlap') /\ died \subseteq died' /\ (Sound' => Sound)
        /\ files \in [Files -> {"absent", "user", "generated"}]
        BY CmdMoves DEF StepsInv, TypeOK, Sound
  <1>a. ASSUME NEW o \in Operators, \A x \in Operators \ {o} : cmd'[x] = Idle,
               WholeOrGone', OnTheWay(cmd[o])'
        PROVE  Goal
    <2>1. \A x \in Operators \ {o} : OnTheWay(cmd[x])'
          BY <1>a DEF OnTheWay, Idle
    <2> QED BY <1>a, <2>1
  <1>b. ASSUME NEW o \in Operators, NEW c, Start(o, c), Sound'
        PROVE  /\ WholeOrGone /\ cmd'[o] = c /\ UNCHANGED <<files, manifest, task, companion>>
               /\ \A x \in Operators : cmd[x] = Idle
               /\ \A x \in Operators \ {o} : cmd'[x] = Idle
    <2>1. ~overlap'
          BY <1>b DEF Sound
    <2> QED BY <1>0, <1>b, <2>1, StartsAlone DEF FilesInv, Start, target, taskVars
  <1>c. ASSUME NEW o \in Operators, NEW c, StepOf(o) # "idle", Goto(o, c), Sound'
        PROVE  /\ WholeOrGone /\ OnTheWay(cmd[o]) /\ cmd'[o] = c /\ cmd[o] \in CmdSteps
               /\ \A x \in Operators \ {o} : cmd[x] = Idle /\ cmd'[x] = Idle
    <2>1. ~overlap
          BY <1>0, <1>c DEF Sound
    <2> QED BY <1>0, <1>c, <2>1, GoesAlone DEF FilesInv
  <1>d. ASSUME UNCHANGED <<files, manifest>>
        PROVE  Healthy' = Healthy /\ NoConflict' = NoConflict /\ \A f : Exists(f)' = Exists(f)
        BY <1>d DEF Healthy, InstallationIsValid, NoConflict, Exists
  <1>1. ASSUME NEW o \in Operators, Install(o), Sound' PROVE Goal
    <2> DEFINE c == [step |-> "install", left |-> Len(Plan), dirs |-> Dirs \ dirs]
    <2>1. Start(o, c) /\ manifest = None /\ NoConflict
          BY <1>1 DEF Install
    <2>2. /\ cmd'[o] = c /\ UNCHANGED <<files, manifest, task, companion>> /\ WholeOrGone
          /\ \A x \in Operators \ {o} : cmd'[x] = Idle
          BY <1>1, <1>b, <2>1
    <2>3. cmd'[o].step = "install" /\ Through(cmd[o])' = {}
          BY <2>2, PlanLength DEF Through
    <2>4. OnTheWay(cmd[o])'
          BY <2>1, <2>2, <2>3 DEF OnTheWay
    <2>5. WholeOrGone'
          BY <1>d, <2>1, <2>2 DEF WholeOrGone, HasActiveTask
    <2> QED BY <1>a, <2>2, <2>4, <2>5
  <1>2. ASSUME NEW o \in Operators, Uninstall(o), Sound' PROVE Goal
    <2> DEFINE c == [step |-> "uninstall", left |-> Len(Plan), dirs |-> manifest]
    <2>1. Start(o, c) /\ manifest # None /\ ~HasActiveTask
          BY <1>2 DEF Uninstall
    <2>2. /\ cmd'[o] = c /\ UNCHANGED <<files, manifest, task, companion>> /\ WholeOrGone
          /\ \A x \in Operators \ {o} : cmd'[x] = Idle
          BY <1>2, <1>b, <2>1
    <2>3. cmd'[o].step = "uninstall" /\ Through(cmd[o])' = {}
          BY <2>2, PlanLength DEF Through
    <2>4. OnTheWay(cmd[o])'
          BY <2>1, <2>2, <2>3 DEF OnTheWay, HasActiveTask
    <2>5. WholeOrGone'
          BY <1>d, <2>1, <2>2 DEF WholeOrGone, HasActiveTask
    <2> QED BY <1>a, <2>2, <2>4, <2>5
  <1>3. ASSUME NEW o \in Operators, NEW c, Start(o, c), c.step \in {"create", "resume"}, Healthy, Sound'
        PROVE  Goal
    <2>1. /\ cmd'[o] = c /\ UNCHANGED <<files, manifest, task, companion>> /\ WholeOrGone
          /\ \A x \in Operators \ {o} : cmd'[x] = Idle
          BY <1>3, <1>b
    <2>2. OnTheWay(cmd[o])'
          BY <1>3, <1>d, <2>1 DEF OnTheWay
    <2>3. WholeOrGone'
          BY <1>3, <1>d, <2>1 DEF WholeOrGone, HasActiveTask, Healthy, InstallationIsValid
    <2> QED BY <1>a, <2>1, <2>2, <2>3
  <1>4. ASSUME NEW o \in Operators, NEW id \in Ids, NEW k \in Companions, NEW p \in Pinned,
               TaskCreate(o, id, k, p), Sound'
        PROVE  Goal
    <2> DEFINE c == [step |-> "create", task |-> Created(id, k, p)]
    <2>1. Start(o, c) /\ c.step = "create" /\ Exists(Marker)
          BY <1>4 DEF TaskCreate, Created
    <2>2. WholeOrGone /\ \A x \in Operators : cmd[x] = Idle
          BY <1>4, <1>b, <2>1
    <2>3. Healthy
      <3>1. manifest # None
        <4>1. \A x \in Operators : StepOf(x) # "install"
              BY <2>2 DEF StepOf, Idle
        <4> QED BY <2>1, <2>2, <4>1, MarkerInPlan DEF WholeOrGone, NoConflict
      <3> QED BY <2>1, <2>2, <3>1 DEF WholeOrGone
    <2> QED BY <1>3, <1>4, <2>1, <2>3
  <1>5. ASSUME NEW o \in Operators, TaskResume(o), Sound' PROVE Goal
    <2> DEFINE c == [step |-> "resume", task |-> NextAttempt(task)]
    <2>1. Start(o, c) /\ c.step = "resume" /\ HasActiveTask
          BY <1>5 DEF TaskResume, HasActiveTask
    <2>2. Healthy
          BY <1>5, <1>b, <2>1 DEF WholeOrGone
    <2> QED BY <1>3, <1>5, <2>1, <2>2
  <1>6. ASSUME NEW o \in Operators, InstallFile(o), Sound' PROVE Goal
    <2> DEFINE c == [cmd[o] EXCEPT !.left = @ - 1]
    <2>1. /\ StepOf(o) # "idle" /\ Goto(o, c) /\ cmd[o].step = "install"
          /\ files' = [files EXCEPT ![Next1(cmd[o])] = "generated"]
          /\ UNCHANGED <<manifest, task, companion>>
          BY <1>6 DEF InstallFile, StepOf, taskVars
    <2>2. /\ WholeOrGone /\ OnTheWay(cmd[o]) /\ cmd'[o] = c /\ cmd[o] \in CmdSteps
          /\ \A x \in Operators \ {o} : cmd[x] = Idle /\ cmd'[x] = Idle
          BY <1>6, <1>c, <2>1
    <2>3. cmd[o] \in [step : {"install", "uninstall"}, left : 0..Len(Plan), dirs : SUBSET Dirs]
          /\ cmd[o].left > 0
          BY <1>6, <2>1, <2>2, CmdKinds DEF InstallFile
    <2>4. /\ c.step = "install" /\ Next1(cmd[o]) \in Files
          /\ \A i \in Through(c) : i \in Through(cmd[o]) \/ Plan[i] = Next1(cmd[o])
          BY <2>1, <2>3, OneFurther
    <2>5. \A f : f = Next1(cmd[o]) \/ Exists(f) => files'[f] # "absent"
          BY <1>0, <2>1, <2>4 DEF Exists
    <2>6. manifest = None /\ \A i \in Through(c) : Exists(Plan[i])'
          BY <2>1, <2>2, <2>4, <2>5 DEF OnTheWay, Exists
    <2>7. OnTheWay(cmd[o])'
          BY <2>1, <2>2, <2>4, <2>6 DEF OnTheWay
    <2>8. WholeOrGone'
          BY <2>1, <2>2, <2>4, <2>6 DEF WholeOrGone, HasActiveTask, StepOf, Healthy, InstallationIsValid
    <2> QED BY <1>a, <2>2, <2>7, <2>8
  <1>7. ASSUME NEW o \in Operators, InstallManifest(o), Sound' PROVE Goal
    <2>1. /\ StepOf(o) # "idle" /\ Goto(o, Idle) /\ cmd[o].step = "install" /\ cmd[o].left = 0
          /\ manifest' = cmd[o].dirs /\ UNCHANGED <<files, task, companion>>
          BY <1>7 DEF InstallManifest, StepOf, taskVars
    <2>2. /\ WholeOrGone /\ OnTheWay(cmd[o]) /\ cmd'[o] = Idle /\ cmd[o] \in CmdSteps
          /\ \A x \in Operators \ {o} : cmd[x] = Idle /\ cmd'[x] = Idle
          BY <1>7, <1>c, <2>1
    <2>3. manifest' # None
          BY <2>1, <2>2, CmdKinds, NoneAssumption
    <2>4. \A f \in Files : Exists(f)
      <3>1. \A i \in 1..Len(Plan) : Exists(Plan[i])
            BY <2>1, <2>2, PlanLength DEF OnTheWay, Through
      <3> QED BY <3>1, AgentWorkflowAssumption DEF Files
    <2>5. Healthy'
          BY <2>1, <2>3, <2>4 DEF Healthy, InstallationIsValid, Exists
    <2>6. WholeOrGone' /\ OnTheWay(cmd[o])'
          BY <2>2, <2>3, <2>5 DEF WholeOrGone, OnTheWay, Idle
    <2> QED BY <1>a, <2>2, <2>6
  <1>8. ASSUME NEW o \in Operators, UninstallFile(o), Sound' PROVE Goal
    <2> DEFINE c == [cmd[o] EXCEPT !.left = @ - 1]
    <2>1. /\ StepOf(o) # "idle" /\ Goto(o, c) /\ cmd[o].step = "uninstall"
          /\ files' = [files EXCEPT ![Next1(cmd[o])] = "absent"]
          /\ UNCHANGED <<manifest, task, companion>>
          BY <1>8 DEF UninstallFile, StepOf, taskVars
    <2>2. /\ WholeOrGone /\ OnTheWay(cmd[o]) /\ cmd'[o] = c /\ cmd[o] \in CmdSteps
          /\ \A x \in Operators \ {o} : cmd[x] = Idle /\ cmd'[x] = Idle
          BY <1>8, <1>c, <2>1
    <2>3. cmd[o] \in [step : {"install", "uninstall"}, left : 0..Len(Plan), dirs : SUBSET Dirs]
          /\ cmd[o].left > 0
          BY <1>8, <2>1, <2>2, CmdKinds DEF UninstallFile
    <2>4. /\ c.step = "uninstall" /\ Next1(cmd[o]) \in Files
          /\ \A i \in Through(c) : i \in Through(cmd[o]) \/ Plan[i] = Next1(cmd[o])
          /\ 1 \in Through(c) /\ \A i \in Through(c) : Plan[i] \in Files
          BY <2>1, <2>3, OneFurther
    <2>5. \A f \in Files : f = Next1(cmd[o]) \/ ~Exists(f) => files'[f] = "absent"
          BY <1>0, <2>1, <2>4 DEF Exists
    <2>6. manifest # None /\ ~HasActiveTask /\ \A i \in Through(c) : ~Exists(Plan[i])'
          BY <2>1, <2>2, <2>4, <2>5 DEF OnTheWay, Exists
    <2>7. OnTheWay(cmd[o])'
          BY <2>1, <2>2, <2>4, <2>6 DEF OnTheWay, HasActiveTask
    <2>8. WholeOrGone'
          BY <2>1, <2>4, <2>6, MarkerInPlan DEF WholeOrGone, HasActiveTask, Exists
    <2> QED BY <1>a, <2>2, <2>7, <2>8
  <1>9. ASSUME NEW o \in Operators, UninstallManifest(o), Sound' PROVE Goal
    <2> DEFINE c == [step |-> "rmdir", dirs |-> cmd[o].dirs]
    <2>1. /\ StepOf(o) # "idle" /\ Goto(o, c) /\ cmd[o].step = "uninstall" /\ cmd[o].left = 0
          /\ manifest' = None /\ UNCHANGED <<files, task, companion>>
          BY <1>9 DEF UninstallManifest, StepOf, taskVars
    <2>2. /\ OnTheWay(cmd[o]) /\ cmd'[o] = c
          /\ \A x \in Operators \ {o} : cmd[x] = Idle /\ cmd'[x] = Idle
          BY <1>9, <1>c, <2>1
    <2>3. \A f \in Files : ~Exists(f)
      <3>1. \A i \in 1..Len(Plan) : ~Exists(Plan[i])
            BY <2>1, <2>2, PlanLength DEF OnTheWay, Through
      <3> QED BY <3>1, AgentWorkflowAssumption DEF Files
    <2>4. NoConflict' /\ ~HasActiveTask'
          BY <2>1, <2>2, <2>3 DEF NoConflict, Exists, OnTheWay, HasActiveTask
    <2>5. WholeOrGone' /\ OnTheWay(cmd[o])'
          BY <2>1, <2>2, <2>4 DEF WholeOrGone, OnTheWay
    <2> QED BY <1>a, <2>2, <2>5
  <1>10. ASSUME NEW o \in Operators, WriteTask(o), Sound' PROVE Goal
    <2> DEFINE c == AfterTask(cmd[o].task)
    <2>1. /\ StepOf(o) # "idle" /\ Goto(o, c) /\ cmd[o].step \in {"create", "resume"}
          /\ UNCHANGED <<files, manifest>>
          BY <1>10 DEF WriteTask, StepOf
    <2>2. /\ OnTheWay(cmd[o]) /\ cmd'[o] = c
          /\ \A x \in Operators \ {o} : cmd[x] = Idle /\ cmd'[x] = Idle
          BY <1>10, <1>c, <2>1
    <2>3. Healthy'
          BY <1>d, <2>1, <2>2 DEF OnTheWay
    <2>4. WholeOrGone' /\ OnTheWay(cmd[o])'
          BY <2>2, <2>3 DEF WholeOrGone, OnTheWay, AfterTask, Idle, Healthy, InstallationIsValid
    <2> QED BY <1>a, <2>2, <2>4
  <1>11. ASSUME NEW o \in Operators, WriteCompanion(o), Sound' PROVE Goal
    <2>1. /\ StepOf(o) # "idle" /\ Goto(o, Idle) /\ cmd[o].step = "companion"
          /\ UNCHANGED <<files, manifest>>
          BY <1>11 DEF WriteCompanion, StepOf, target
    <2>2. /\ OnTheWay(cmd[o]) /\ cmd'[o] = Idle
          /\ \A x \in Operators \ {o} : cmd[x] = Idle /\ cmd'[x] = Idle
          BY <1>11, <1>c, <2>1
    <2>3. Healthy'
          BY <1>d, <2>1, <2>2 DEF OnTheWay
    <2>4. WholeOrGone' /\ OnTheWay(cmd[o])'
          BY <2>2, <2>3 DEF WholeOrGone, OnTheWay, Idle, Healthy, InstallationIsValid
    <2> QED BY <1>a, <2>2, <2>4
  <1>12. ASSUME NEW o \in Operators, UninstallDirs(o) \/ Crash(o) PROVE FilesInv'
    <2>1. /\ UNCHANGED <<files, manifest, pre>> /\ (HasActiveTask' => HasActiveTask)
          /\ cmd' = [cmd EXCEPT ![o] = Idle] /\ Idle.step = "idle"
          BY <1>12 DEF UninstallDirs, Crash, Goto, target, taskVars, HasActiveTask, history, Idle
    <2>2. Sound' => cmd[o].step # "install"
          BY <1>12 DEF UninstallDirs, Crash, Sound
    <2>3. \A x \in Operators : cmd'[x] = cmd[x] \/ (x = o /\ cmd'[x] = Idle)
          BY <1>0, <2>1
    <2> QED BY <1>0, <2>1, <2>2, <2>3, FilesQuiet
  <1>13. ASSUME UNCHANGED <<files, manifest, cmd>>, task' \in {task, None}, companion' \in {companion, None}
         PROVE  FilesInv'
    <2>1. HasActiveTask' => HasActiveTask
          BY <1>13 DEF HasActiveTask
    <2> QED BY <1>0, <1>13, <2>1, FilesQuiet
  <1>14. ASSUME NEW e \in Executors,
                \/ Begin(e) \/ \E s \in {"PASS", "BLOCKED"} : Publish(e, s)
                \/ Accept(e) \/ Remove(e) \/ Clean(e) \/ ExecutorDies(e)
         PROVE  FilesInv'
         BY <1>13, <1>14 DEF Begin, Publish, Accept, Remove, Clean, ExecutorDies, Do, target, taskVars
  <1>15. CASE Abandon \/ Commit \/ UNCHANGED vars
         BY <1>13, <1>15 DEF Abandon, Commit, vars, target, taskVars
  <1>16. ASSUME Sound' => Goal PROVE FilesInv'
         BY <1>16 DEF FilesInv
  <1> QED BY <1>1, <1>2, <1>4, <1>5, <1>6, <1>7, <1>8, <1>9, <1>10, <1>11, <1>12, <1>14, <1>15,
             <1>16 DEF Next

-----------------------------------------------------------------------------
(* Every directory there is was found, or install made it and lists it for   *)
(* uninstall to remove, or holds results, which nobody removes.              *)

Kept == {d \in {ResultDir} : \E p \in Paths : results[p] # None}

\* A list of made directories that, with the others, accounts for them all.
Accounts(made) == Dirs \subseteq pre.dirs \cup made \cup Kept

DirsInv ==
  Sound /\ "rmdir" \notin died =>
    /\ manifest = None /\ (\A o \in Operators : StepOf(o) \notin Setup) => dirs \subseteq pre.dirs \cup Kept
    /\ manifest # None => Accounts(manifest)
    /\ \A o \in Operators : StepOf(o) \in Setup => Accounts(cmd[o].dirs)

LEMMA DirsStep == StepsInv /\ Solo /\ FilesInv /\ DirsInv /\ [Next]_vars => DirsInv'
  <1> DEFINE Clear == Sound /\ "rmdir" \notin died
             NoneMade == \A o \in Operators : StepOf(o) \notin Setup
             Only == dirs \subseteq pre.dirs \cup Kept
  <1> SUFFICES ASSUME StepsInv, Solo, FilesInv, DirsInv, [Next]_vars, Clear'
               PROVE  /\ manifest' = None /\ NoneMade' => Only'
                      /\ manifest' # None => Accounts(manifest)'
                      /\ \A o \in Operators : StepOf(o)' \in Setup => Accounts(cmd[o].dirs)'
      BY DEF DirsInv
  <1> DEFINE Goal == /\ manifest' = None /\ NoneMade' => Only'
                     /\ manifest' # None => Accounts(manifest)'
                     /\ \A o \in Operators : StepOf(o)' \in Setup => Accounts(cmd[o].dirs)'
  <1>0. /\ cmd \in [Operators -> CmdSteps] /\ pre' = pre /\ Clear /\ dirs \subseteq Dirs
        /\ ~overlap /\ ~overlap' /\ results \in [Paths -> {None} \cup Results]
        BY CmdMoves DEF StepsInv, TypeOK, Sound
  <1>h. /\ manifest = None /\ NoneMade => Only
        /\ manifest # None => Accounts(manifest)
        /\ \A o \in Operators : StepOf(o) \in Setup => Accounts(cmd[o].dirs)
        /\ WholeOrGone /\ \A o \in Operators : OnTheWay(cmd[o])
        BY <1>0 DEF DirsInv, FilesInv
  <1> HIDE DEF Clear
  <1>k. results' = results => Kept' = Kept /\ \A made : Accounts(made) => Dirs \subseteq pre'.dirs \cup made \cup Kept'
        BY <1>0 DEF Kept, Accounts
  <1>a. ASSUME NEW o \in Operators, NEW c, Start(o, c), c.step \notin Setup PROVE Goal
    <2>1. /\ cmd'[o] = c /\ UNCHANGED <<dirs, manifest, results>>
          /\ \A x \in Operators : cmd[x] = Idle
          /\ \A x \in Operators \ {o} : cmd'[x] = Idle
          BY <1>0, <1>a, StartsAlone DEF Start, target
    <2>2. Idle.step \notin Setup
          BY DEF Idle, Setup
    <2>3. NoneMade /\ \A x \in Operators : StepOf(x)' \notin Setup
          BY <1>a, <2>1, <2>2 DEF StepOf
    <2> QED BY <1>0, <1>h, <1>k, <2>1, <2>3 DEF Accounts
  <1>b. ASSUME NEW o \in Operators, NEW c, StepOf(o) # "idle", Goto(o, c)
        PROVE  /\ cmd'[o] = c
               /\ \A x \in Operators \ {o} : cmd[x] = Idle /\ cmd'[x] = Idle
               /\ \A x \in Operators \ {o} : StepOf(x) \notin Setup /\ StepOf(x)' \notin Setup
    <2>1. Idle.step \notin Setup
          BY DEF Idle, Setup
    <2> QED BY <1>0, <1>b, <2>1, GoesAlone DEF StepOf
  <1>1. ASSUME NEW o \in Operators, Install(o) PROVE Goal
    <2> DEFINE c == [step |-> "install", left |-> Len(Plan), dirs |-> Dirs \ dirs]
    <2>1. Start(o, c) /\ manifest = None
          BY <1>1 DEF Install
    <2>2. /\ cmd'[o] = c /\ UNCHANGED <<dirs, manifest, results>>
          /\ \A x \in Operators : cmd[x] = Idle
          /\ \A x \in Operators \ {o} : cmd'[x] = Idle
          BY <1>0, <2>1, StartsAlone DEF Start, target
    <2>3. NoneMade
          BY <2>2 DEF StepOf, Idle, Setup
    <2>4. Dirs \subseteq pre'.dirs \cup (Dirs \ dirs) \cup Kept'
          BY <1>0, <1>h, <1>k, <2>1, <2>2, <2>3
    <2>5. \A x \in Operators : StepOf(x)' \in Setup => x = o
          BY <2>2 DEF StepOf, Idle, Setup
    <2>6. cmd'[o].dirs = Dirs \ dirs /\ StepOf(o)' \in Setup
          BY <2>2 DEF StepOf, Setup
    <2>7. Accounts(cmd[o].dirs)'
          BY <2>4, <2>6 DEF Accounts, Dirs, Files
    <2> QED BY <2>1, <2>2, <2>5, <2>6, <2>7
  <1>2. ASSUME NEW o \in Operators, Uninstall(o) PROVE Goal
    <2> DEFINE c == [step |-> "uninstall", left |-> Len(Plan), dirs |-> manifest]
    <2>1. Start(o, c) /\ manifest # None
          BY <1>2 DEF Uninstall
    <2>2. /\ cmd'[o] = c /\ UNCHANGED <<dirs, manifest, results>>
          /\ \A x \in Operators \ {o} : cmd'[x] = Idle
          BY <1>0, <2>1, StartsAlone DEF Start, target
    <2>3. Accounts(manifest)'
          BY <1>0, <1>h, <1>k, <2>1, <2>2 DEF Accounts
    <2>4. \A x \in Operators : StepOf(x)' \in Setup => x = o
          BY <2>2 DEF StepOf, Idle, Setup
    <2>5. cmd'[o].dirs = manifest'
          BY <2>2
    <2>6. Accounts(cmd[o].dirs)'
          BY <2>3, <2>5 DEF Accounts
    <2> QED BY <2>1, <2>2, <2>3, <2>4, <2>6
  <1>3. ASSUME NEW o \in Operators, NEW id \in Ids, NEW k \in Companions, NEW p \in Pinned,
               TaskCreate(o, id, k, p)
        PROVE  Goal
    <2> DEFINE c == [step |-> "create", task |-> Created(id, k, p)]
    <2>1. Start(o, c) /\ c.step \notin Setup
          BY <1>3 DEF TaskCreate, Created, Setup
    <2> QED BY <1>a, <2>1
  <1>4. ASSUME NEW o \in Operators, TaskResume(o) PROVE Goal
    <2> DEFINE c == [step |-> "resume", task |-> NextAttempt(task)]
    <2>1. Start(o, c) /\ c.step \notin Setup
          BY <1>4 DEF TaskResume, Setup
    <2> QED BY <1>a, <2>1
  <1>5. ASSUME NEW o \in Operators, InstallFile(o) \/ UninstallFile(o) PROVE Goal
    <2> DEFINE c == [cmd[o] EXCEPT !.left = @ - 1]
    <2>1. /\ StepOf(o) \in Setup /\ StepOf(o) # "idle" /\ Goto(o, c)
          /\ UNCHANGED <<manifest, results>>
          BY <1>5 DEF InstallFile, UninstallFile, StepOf, Setup
    <2>2. cmd'[o] = c /\ \A x \in Operators \ {o} : StepOf(x)' \notin Setup
          BY <1>b, <2>1
    <2>3. cmd[o] \in [step : {"install", "uninstall"}, left : 0..Len(Plan), dirs : SUBSET Dirs]
          BY <1>0, <1>5, CmdKinds DEF InstallFile, UninstallFile
    <2>4. c.dirs = cmd[o].dirs /\ c.step \in Setup
          BY <2>3 DEF Setup
    <2>5. Accounts(cmd[o].dirs)'
          BY <1>0, <1>h, <1>k, <2>1, <2>2, <2>4 DEF Accounts
    <2>6. manifest' # None => Accounts(manifest)'
          BY <1>0, <1>h, <1>k, <2>1 DEF Accounts
    <2>7. ~NoneMade'
          BY <2>2, <2>4 DEF StepOf
    <2> QED BY <2>2, <2>5, <2>6, <2>7
  <1>6. ASSUME NEW o \in Operators, InstallManifest(o) PROVE Goal
    <2>1. /\ StepOf(o) \in Setup /\ StepOf(o) # "idle" /\ Goto(o, Idle)
          /\ manifest' = cmd[o].dirs /\ results' = results
          BY <1>6 DEF InstallManifest, StepOf, Setup
    <2>2. \A x \in Operators : StepOf(x)' \notin Setup
          BY <1>b, <2>1 DEF StepOf, Idle, Setup
    <2>3. Accounts(manifest)'
          BY <1>0, <1>h, <1>k, <2>1 DEF Accounts
    <2>4. manifest' # None
          BY <1>0, <1>6, <2>1, CmdKinds, NoneAssumption DEF InstallManifest
    <2> QED BY <2>2, <2>3, <2>4
  <1>7. ASSUME NEW o \in Operators, UninstallManifest(o) PROVE Goal
    <2> DEFINE c == [step |-> "rmdir", dirs |-> cmd[o].dirs]
    <2>1. /\ StepOf(o) \in Setup /\ StepOf(o) # "idle" /\ Goto(o, c)
          /\ manifest' = None /\ results' = results
          BY <1>7 DEF UninstallManifest, StepOf, Setup
    <2>2. cmd'[o] = c /\ \A x \in Operators \ {o} : StepOf(x)' \notin Setup
          BY <1>b, <2>1
    <2>3. Accounts(cmd[o].dirs)'
          BY <1>0, <1>h, <1>k, <2>1, <2>2 DEF Accounts
    <2>4. ~NoneMade'
          BY <2>2 DEF StepOf, Setup
    <2> QED BY <2>1, <2>2, <2>3, <2>4
  <1>8. ASSUME NEW o \in Operators, UninstallDirs(o) PROVE Goal
    <2>1. /\ StepOf(o) = "rmdir" /\ Goto(o, Idle) /\ UNCHANGED <<manifest, results>>
          /\ dirs' = dirs \ {d \in cmd[o].dirs : Empty(d)}
          BY <1>8 DEF UninstallDirs, StepOf
    <2>2. /\ \A x \in Operators : StepOf(x)' \notin Setup
          /\ \A x \in Operators : StepOf(x) # "install"
          BY <1>b, <2>1 DEF StepOf, Idle, Setup
    <2>3. manifest = None
          BY <1>h, <2>1 DEF OnTheWay, StepOf
    <2>4. NoConflict /\ ~HasActiveTask
          BY <1>h, <2>2, <2>3 DEF WholeOrGone, Healthy, InstallationIsValid
    <2>5. \A d : ~Empty(d) => d \in Kept
          BY <2>4 DEF Empty, NoConflict, Kept
    <2>6. Accounts(cmd[o].dirs)
          BY <1>h, <2>1 DEF Setup
    <2>7. Only'
      <3>1. dirs' \subseteq pre.dirs \cup Kept
            BY <1>0, <2>1, <2>5, <2>6 DEF Accounts
      <3> QED BY <1>0, <1>k, <2>1, <3>1
    <2> QED BY <2>1, <2>2, <2>3, <2>7
  <1>9. ASSUME NEW o \in Operators, WriteTask(o) PROVE Goal
    <2> DEFINE c == AfterTask(cmd[o].task)
    <2>1. /\ StepOf(o) \in {"create", "resume"} /\ StepOf(o) # "idle" /\ Goto(o, c)
          /\ UNCHANGED <<manifest, results>> /\ c.step \notin Setup
          BY <1>9 DEF WriteTask, StepOf, AfterTask, Idle, Setup
    <2>2. \A x \in Operators : StepOf(x)' \notin Setup
          BY <1>b, <2>1 DEF StepOf
    <2>3. manifest # None
          BY <1>h, <2>1 DEF OnTheWay, StepOf, Healthy, InstallationIsValid
    <2>4. Accounts(manifest)'
          BY <1>0, <1>h, <1>k, <2>1, <2>3 DEF Accounts
    <2> QED BY <2>1, <2>2, <2>3, <2>4
  <1>10. ASSUME NEW o \in Operators, WriteCompanion(o) PROVE Goal
    <2>1. /\ StepOf(o) = "companion" /\ Goto(o, Idle) /\ UNCHANGED <<dirs, manifest, results>>
          BY <1>10 DEF WriteCompanion, StepOf, target
    <2>2. /\ \A x \in Operators : StepOf(x)' \notin Setup /\ StepOf(x) \notin Setup
          BY <1>b, <2>1 DEF StepOf, Idle, Setup
    <2> QED BY <1>0, <1>h, <1>k, <2>1, <2>2 DEF Accounts
  <1>11. ASSUME NEW o \in Operators, Crash(o) PROVE Goal
    <2>1. /\ cmd[o] # Idle /\ Goto(o, Idle) /\ UNCHANGED <<dirs, manifest, results>>
          /\ died' = died \cup {StepOf(o)}
          BY <1>11 DEF Crash, StepOf, target
    <2>2. StepOf(o) # "idle"
          BY <1>0, <2>1, IdleStep DEF StepOf
    <2>3. StepOf(o) \notin {"install", "rmdir"}
          BY <2>1 DEF Clear, Sound
    <2>4. \A x \in Operators : StepOf(x)' \notin Setup
          BY <1>b, <2>1, <2>2 DEF StepOf, Idle, Setup
    <2>5. \A x \in Operators \ {o} : StepOf(x) \notin Setup
          BY <1>b, <2>1, <2>2
    <2>6. StepOf(o) = "uninstall" => manifest # None
          BY <1>h DEF OnTheWay, StepOf
    <2>7. manifest = None => NoneMade
          BY <2>3, <2>5, <2>6 DEF Setup
    <2> QED BY <1>0, <1>h, <1>k, <2>1, <2>4, <2>7 DEF Accounts
  <1>12. ASSUME UNCHANGED <<cmd, dirs, manifest, results>> PROVE Goal
         BY <1>0, <1>h, <1>k, <1>12 DEF Accounts, StepOf
  <1>13. ASSUME NEW e \in Executors, NEW s \in {"PASS", "BLOCKED"}, Publish(e, s) PROVE Goal
    <2>1. UNCHANGED <<cmd, manifest>> /\ dirs' = dirs \cup {ResultDir}
          BY <1>13 DEF Publish, Do
    <2>2. work[e].of \in Tasks /\ work[e].source \in 1..MaxCommits
          BY <1>13, WorkKinds DEF Publish, StepsInv
    <2> DEFINE t == work[e].of
               r == [task_id |-> t.id, path |-> PathOf(t), source |-> work[e].source,
                     status |-> s, of |-> t]
    <2>3. r \in Results /\ PathOf(t) \in Paths
          BY <2>2, TaskFields DEF Results
    <2>4. results' = [results EXCEPT ![PathOf(t)] = r]
          BY <1>13 DEF Publish
    <2>5. Kept \subseteq Kept' /\ ResultDir \in Kept'
      <3>1. results'[PathOf(t)] # None
            BY <1>0, <2>3, <2>4, NoneAssumption
      <3> QED BY <2>3, <3>1 DEF Kept
    <2> QED BY <1>0, <1>h, <2>1, <2>5 DEF Accounts, StepOf
  <1>14. ASSUME NEW e \in Executors,
                Begin(e) \/ Accept(e) \/ Remove(e) \/ Clean(e) \/ ExecutorDies(e)
         PROVE  Goal
         BY <1>12, <1>14 DEF Begin, Accept, Remove, Clean, ExecutorDies, Do, target
  <1>15. CASE Abandon \/ Commit \/ UNCHANGED vars
         BY <1>12, <1>15 DEF Abandon, Commit, vars, target
  <1> QED BY <1>1, <1>2, <1>3, <1>4, <1>5, <1>6, <1>7, <1>8, <1>9, <1>10, <1>11, <1>13, <1>14,
             <1>15 DEF Next

-----------------------------------------------------------------------------
(* A document on its way finds no ACTIVE task, or the attempt before its own *)
(* with no companion it would not write again; and a companion is written    *)
(* only next to the document it renders.                                     *)

Follows(t) ==
  task # None => /\ t.id = task.id /\ t.attempt = task.attempt + 1
                 /\ t.companion = task.companion

LineInv ==
  ~overlap => \A o \in Operators :
    /\ StepOf(o) = "create" => ~HasActiveTask
    /\ StepOf(o) = "resume" => Follows(cmd[o].task)

CompanionInv ==
  ~overlap /\ died = {} =>
    /\ task # None /\ ~task.companion => companion = None
    /\ task # None /\ (\A o \in Operators : StepOf(o) # "companion") => companion \in {None, task}
    /\ \A o \in Operators :
         /\ StepOf(o) = "resume" /\ ~cmd[o].task.companion => companion = None
         /\ StepOf(o) = "companion" => cmd[o].task.companion /\ task \in {None, cmd[o].task}

\* The commands that set a target up keep to its files.
LEMMA SetupKeepsTasks ==
  ASSUME StepsInv, NEW o \in Operators,
         \/ InstallFile(o) \/ InstallManifest(o) \/ UninstallFile(o)
         \/ UninstallManifest(o) \/ UninstallDirs(o)
  PROVE  /\ StepOf(o) \in Setup /\ UNCHANGED <<task, companion, history>>
         /\ \E c : Goto(o, c) /\ c.step \notin {"create", "resume", "companion"}
  <1>1. StepOf(o) \in Setup /\ UNCHANGED <<task, companion, history>>
        BY DEF InstallFile, InstallManifest, UninstallFile, UninstallManifest, UninstallDirs,
               StepOf, Setup, taskVars
  <1>2. CASE InstallFile(o) \/ UninstallFile(o)
    <2> DEFINE c == [cmd[o] EXCEPT !.left = @ - 1]
    <2>1. cmd[o] \in [step : {"install", "uninstall"}, left : 0..Len(Plan), dirs : SUBSET Dirs]
          BY <1>2, CmdKinds DEF InstallFile, UninstallFile, StepsInv
    <2>2. Goto(o, c) /\ c.step = cmd[o].step
          BY <1>2, <2>1 DEF InstallFile, UninstallFile
    <2> QED BY <1>1, <2>1, <2>2
  <1>3. CASE InstallManifest(o) \/ UninstallManifest(o) \/ UninstallDirs(o)
    <2>1. PICK c \in {Idle, [step |-> "rmdir", dirs |-> cmd[o].dirs]} : Goto(o, c)
          BY <1>3 DEF InstallManifest, UninstallManifest, UninstallDirs
    <2>2. c.step \notin {"create", "resume", "companion"}
          BY <2>1 DEF Idle
    <2> QED BY <1>1, <2>1, <2>2
  <1> QED BY <1>2, <1>3

LEMMA LineStep == StepsInv /\ Solo /\ LineInv /\ [Next]_vars => LineInv'
  <1> SUFFICES ASSUME StepsInv, Solo, LineInv, [Next]_vars, ~overlap',
                      NEW o \in Operators, StepOf(o)' \in {"create", "resume"}
               PROVE  /\ StepOf(o)' = "create" => ~HasActiveTask'
                      /\ StepOf(o)' = "resume" => Follows(cmd[o].task)'
      BY DEF LineInv
  <1> DEFINE Goal == /\ StepOf(o)' = "create" => ~HasActiveTask'
                     /\ StepOf(o)' = "resume" => Follows(cmd[o].task)'
  <1>0. ~overlap /\ cmd \in [Operators -> CmdSteps]
        BY CmdMoves DEF StepsInv
  <1>h. /\ StepOf(o) = "create" => ~HasActiveTask
        /\ StepOf(o) = "resume" => Follows(cmd[o].task)
        BY <1>0 DEF LineInv
  <1>1. ASSUME NEW x \in Operators, NEW c, StepOf(x) # "idle", Goto(x, c),
               c.step \notin {"create", "resume"}
        PROVE  FALSE
        BY <1>0, <1>1, GoesAlone DEF StepOf, Idle
  <1>2. ASSUME NEW x \in Operators, Install(x) \/ Uninstall(x) PROVE FALSE
    <2>1. PICK c \in {[step |-> "install", left |-> Len(Plan), dirs |-> Dirs \ dirs],
                      [step |-> "uninstall", left |-> Len(Plan), dirs |-> manifest]} : Start(x, c)
          BY <1>2 DEF Install, Uninstall
    <2>2. c.step \notin {"create", "resume"}
          BY <2>1
    <2> QED BY <2>1, <2>2, StartsAlone DEF StepOf, Idle
  <1>3. ASSUME NEW x \in Operators, NEW id \in Ids, NEW k \in Companions, NEW p \in Pinned,
               TaskCreate(x, id, k, p)
        PROVE  Goal
    <2> DEFINE c == [step |-> "create", task |-> Created(id, k, p)]
    <2>1. Start(x, c) /\ ~HasActiveTask
          BY <1>3 DEF TaskCreate, Created
    <2>2. cmd'[x] = c /\ \A y \in Operators \ {x} : cmd'[y] = Idle
          BY <2>1, StartsAlone
    <2>3. o = x /\ StepOf(o)' = "create"
          BY <2>2 DEF StepOf, Idle
    <2> QED BY <2>1, <2>3 DEF Start, taskVars, HasActiveTask
  <1>4. ASSUME NEW x \in Operators, TaskResume(x) PROVE Goal
    <2> DEFINE c == [step |-> "resume", task |-> NextAttempt(task)]
    <2>1. /\ Start(x, c) /\ task # None /\ task \in Tasks
          /\ task.attempt < MaxAttempts /\ stamps < MaxStamps
          BY <1>4 DEF TaskResume, StepsInv, TypeOK
    <2>2. cmd'[x] = c /\ (\A y \in Operators \ {x} : cmd'[y] = Idle) /\ task' = task
          BY <2>1, StartsAlone DEF Start, taskVars
    <2>3. o = x /\ StepOf(o)' = "resume" /\ cmd'[o].task = NextAttempt(task)
          BY <2>2 DEF StepOf, Idle
    <2>4. /\ NextAttempt(task).id = task.id /\ NextAttempt(task).attempt = task.attempt + 1
          /\ NextAttempt(task).companion = task.companion
          BY <2>1, ResumedType DEF NextAttempt, Tasks
    <2> QED BY <2>2, <2>3, <2>4 DEF Follows
  <1>5. ASSUME NEW x \in Operators,
               \/ InstallFile(x) \/ InstallManifest(x) \/ UninstallFile(x)
               \/ UninstallManifest(x) \/ UninstallDirs(x)
        PROVE  FALSE
        BY <1>1, <1>5, SetupKeepsTasks DEF Setup
  <1>6. ASSUME NEW x \in Operators, WriteTask(x) \/ WriteCompanion(x) \/ Crash(x) PROVE FALSE
    <2>1. PICK c \in {Idle, [step |-> "companion", task |-> cmd[x].task]} : Goto(x, c)
          BY <1>6 DEF WriteTask, WriteCompanion, Crash, AfterTask
    <2>2. c.step \notin {"create", "resume"}
          BY <2>1 DEF Idle
    <2>3. StepOf(x) # "idle"
          BY <1>0, <1>6, IdleStep DEF WriteTask, WriteCompanion, Crash, StepOf
    <2> QED BY <1>1, <2>1, <2>2, <2>3
  <1>7. ASSUME UNCHANGED cmd, task' \in {task, None}, companion' \in {companion, None} PROVE Goal
        BY <1>h, <1>7 DEF StepOf, Follows, HasActiveTask
  <1>8. ASSUME NEW e \in Executors,
               \/ Begin(e) \/ \E s \in {"PASS", "BLOCKED"} : Publish(e, s)
               \/ Accept(e) \/ Remove(e) \/ Clean(e) \/ ExecutorDies(e)
        PROVE  Goal
        BY <1>7, <1>8 DEF Begin, Publish, Accept, Remove, Clean, ExecutorDies, Do, taskVars
  <1>9. CASE Abandon \/ Commit \/ UNCHANGED vars
        BY <1>7, <1>9 DEF Abandon, Commit, vars, taskVars
  <1> QED BY <1>2, <1>3, <1>4, <1>5, <1>6, <1>8, <1>9 DEF Next

LEMMA CompanionStep == StepsInv /\ Solo /\ LineInv /\ CompanionInv /\ [Next]_vars => CompanionInv'
  <1> DEFINE Goal ==
        /\ task' # None /\ ~task'.companion => companion' = None
        /\ task' # None /\ (\A o \in Operators : StepOf(o)' # "companion") => companion' \in {None, task'}
        /\ \A o \in Operators :
             /\ StepOf(o)' = "resume" /\ ~cmd'[o].task.companion => companion' = None
             /\ StepOf(o)' = "companion" => cmd'[o].task.companion /\ task' \in {None, cmd'[o].task}
  <1> SUFFICES ASSUME StepsInv, Solo, LineInv, CompanionInv, [Next]_vars, ~overlap', died' = {}
               PROVE  Goal
      BY DEF CompanionInv
  <1>0. ~overlap /\ died = {} /\ cmd \in [Operators -> CmdSteps]
        BY CmdMoves DEF StepsInv
  <1>h. /\ task # None /\ ~task.companion => companion = None
        /\ task # None /\ (\A o \in Operators : StepOf(o) # "companion") => companion \in {None, task}
        /\ \A o \in Operators :
             /\ StepOf(o) = "create" => ~HasActiveTask
             /\ StepOf(o) = "resume" /\ ~cmd[o].task.companion => companion = None
             /\ StepOf(o) = "companion" => cmd[o].task.companion /\ task \in {None, cmd[o].task}
        BY <1>0 DEF CompanionInv, LineInv
  <1>i. Idle.step \notin {"resume", "companion"}
        BY DEF Idle
  <1>a. ASSUME NEW x \in Operators, NEW c, Start(x, c)
        PROVE  /\ cmd'[x] = c /\ UNCHANGED <<task, companion>>
               /\ \A y \in Operators \ {x} : cmd'[y] = Idle
               /\ \A y \in Operators : StepOf(y) # "companion"
        BY <1>i, <1>a, StartsAlone DEF Start, taskVars, StepOf
  <1>b. ASSUME NEW x \in Operators, NEW c, StepOf(x) # "idle", Goto(x, c)
        PROVE  /\ cmd'[x] = c
               /\ \A y \in Operators \ {x} : cmd[y] = Idle /\ cmd'[y] = Idle
        BY <1>0, <1>b, GoesAlone
  <1>1. ASSUME NEW x \in Operators, NEW c, Start(x, c), c.step \notin {"resume", "companion"} PROVE Goal
        BY <1>a, <1>h, <1>i, <1>1 DEF StepOf
  <1>2. ASSUME NEW x \in Operators, Install(x) \/ Uninstall(x) PROVE Goal
    <2>1. PICK c \in {[step |-> "install", left |-> Len(Plan), dirs |-> Dirs \ dirs],
                      [step |-> "uninstall", left |-> Len(Plan), dirs |-> manifest]} : Start(x, c)
          BY <1>2 DEF Install, Uninstall
    <2>2. c.step \notin {"resume", "companion"}
          BY <2>1
    <2> QED BY <1>1, <2>1, <2>2
  <1>3. ASSUME NEW x \in Operators, NEW id \in Ids, NEW k \in Companions, NEW p \in Pinned,
               TaskCreate(x, id, k, p)
        PROVE  Goal
    <2> DEFINE c == [step |-> "create", task |-> Created(id, k, p)]
    <2>1. Start(x, c) /\ c.step \notin {"resume", "companion"}
          BY <1>3 DEF TaskCreate, Created
    <2> QED BY <1>1, <2>1
  <1>4. ASSUME NEW x \in Operators, TaskResume(x) PROVE Goal
    <2> DEFINE c == [step |-> "resume", task |-> NextAttempt(task)]
    <2>1. Start(x, c) /\ task # None /\ task \in Tasks
          BY <1>4 DEF TaskResume, StepsInv, TypeOK
    <2>2. /\ cmd'[x] = c /\ UNCHANGED <<task, companion>>
          /\ \A y \in Operators \ {x} : cmd'[y] = Idle
          /\ \A y \in Operators : StepOf(y) # "companion"
          BY <1>a, <2>1
    <2>3. NextAttempt(task).companion = task.companion
          BY <2>1 DEF NextAttempt, Tasks
    <2>4. /\ StepOf(x)' = "resume" /\ cmd'[x].task = NextAttempt(task)
          BY <2>2 DEF StepOf
    <2> QED BY <1>h, <1>i, <2>1, <2>2, <2>3, <2>4 DEF StepOf
  <1>5. ASSUME NEW x \in Operators,
               \/ InstallFile(x) \/ InstallManifest(x) \/ UninstallFile(x)
               \/ UninstallManifest(x) \/ UninstallDirs(x)
        PROVE  Goal
    <2>1. PICK c : Goto(x, c) /\ c.step \notin {"create", "resume", "companion"}
          BY <1>5, SetupKeepsTasks
    <2>2. StepOf(x) \notin {"idle", "companion"} /\ UNCHANGED <<task, companion>>
          BY <1>5, SetupKeepsTasks DEF Setup
    <2>3. /\ \A y \in Operators : StepOf(y) # "companion"
          /\ \A y \in Operators : StepOf(y)' \notin {"resume", "companion"}
          BY <1>b, <1>i, <2>1, <2>2 DEF StepOf
    <2> QED BY <1>h, <2>2, <2>3
  <1>6. ASSUME NEW x \in Operators, WriteTask(x) PROVE Goal
    <2> DEFINE t == cmd[x].task
    <2>1. /\ StepOf(x) \in {"create", "resume"} /\ Goto(x, AfterTask(t))
          /\ task' = t /\ companion' = companion
          BY <1>6 DEF WriteTask, StepOf
    <2>2. cmd'[x] = AfterTask(t) /\ \A y \in Operators \ {x} : cmd'[y] = Idle
          BY <1>b, <2>1
    <2>3. ~t.companion => companion = None
          BY <1>h, <2>1, <1>0 DEF HasActiveTask
    <2>4. CASE t.companion
      <3>1. StepOf(x)' = "companion" /\ cmd'[x].task = t
            BY <2>2, <2>4 DEF AfterTask, StepOf
      <3> QED BY <1>i, <2>1, <2>2, <2>4, <3>1 DEF StepOf
    <2>5. CASE ~t.companion
      <3>1. cmd'[x] = Idle /\ companion' = None
            BY <2>1, <2>2, <2>3, <2>5 DEF AfterTask
      <3> QED BY <1>i, <2>2, <3>1 DEF StepOf
    <2> QED BY <2>4, <2>5
  <1>7. ASSUME NEW x \in Operators, WriteCompanion(x) PROVE Goal
    <2>1. /\ StepOf(x) = "companion" /\ Goto(x, Idle)
          /\ task' = task /\ companion' = cmd[x].task
          BY <1>7 DEF WriteCompanion, StepOf
    <2>2. \A y \in Operators : cmd'[y] = Idle
          BY <1>b, <2>1
    <2>3. cmd[x].task.companion /\ task \in {None, cmd[x].task}
          BY <1>h, <2>1
    <2> QED BY <1>i, <2>1, <2>2, <2>3 DEF StepOf
  <1>8. ASSUME NEW x \in Operators, Crash(x) PROVE FALSE
        BY <1>8 DEF Crash
  <1>9. ASSUME UNCHANGED cmd, task' \in {task, None}, companion' \in {companion, None} PROVE Goal
        BY <1>h, <1>9 DEF StepOf
  <1>10. ASSUME NEW e \in Executors,
               \/ Begin(e) \/ \E s \in {"PASS", "BLOCKED"} : Publish(e, s)
               \/ Accept(e) \/ Remove(e) \/ Clean(e) \/ ExecutorDies(e)
        PROVE  Goal
        BY <1>9, <1>10 DEF Begin, Publish, Accept, Remove, Clean, ExecutorDies, Do, taskVars
  <1>11. CASE Abandon \/ Commit \/ UNCHANGED vars
        BY <1>9, <1>11 DEF Abandon, Commit, vars, taskVars
  <1> QED BY <1>2, <1>3, <1>4, <1>5, <1>6, <1>7, <1>8, <1>10, <1>11 DEF Next

-----------------------------------------------------------------------------
(* What the steps keep together, and what it gives.                          *)

TargetInv ==
  /\ StepsInv /\ Solo /\ FoundKept /\ UserKept /\ FilesInv /\ DirsInv /\ LineInv /\ CompanionInv

LEMMA TargetInit == Init => TargetInv
  <1> SUFFICES ASSUME Init PROVE TargetInv
      OBVIOUS
  <1>1. StepsInv
        BY StepsInit
  <1>2. /\ \A o \in Operators : cmd[o] = Idle /\ StepOf(o) = "idle"
        /\ manifest = None /\ task = None /\ companion = None
        /\ files = Before /\ dirs = pre.dirs /\ pre \in Found
        BY DEF Init, StepOf, Idle, Before
  <1>3. pre.files = {} => NoConflict
        BY <1>2 DEF NoConflict, Exists, Before
  <1>4. \A o \in Operators : OnTheWay(cmd[o])
        BY <1>2 DEF OnTheWay, StepOf
  <1>5. FilesInv
        BY <1>2, <1>3, <1>4 DEF FilesInv, WholeOrGone, HasActiveTask, Sound
  <1>6. Solo /\ FoundKept /\ UserKept /\ LineInv /\ CompanionInv
        BY <1>2 DEF Solo, FoundKept, UserKept, LineInv, CompanionInv, Setup
  <1>7. DirsInv
        BY <1>2 DEF DirsInv, Setup
  <1> QED BY <1>1, <1>5, <1>6, <1>7 DEF TargetInv

LEMMA TargetStep == TargetInv /\ [Next]_vars => TargetInv'
  BY StepsStep, SoloStep, FoundStep, UserStep, FilesStep, DirsStep, LineStep, CompanionStep DEF TargetInv

LEMMA TargetHolds == Spec => []TargetInv
  BY TargetInit, TargetStep, PTL DEF Spec

(* Uninstall leaves the target as install found it, whatever the plan, the   *)
(* directories and what was there, as long as commands run one at a time and *)
(* none is killed halfway through install or through removing directories.   *)
THEOREM UninstallRestores == Spec => []TargetRestored
  <1>1. TargetInv => TargetRestored
    <2> SUFFICES ASSUME TargetInv, ~overlap, died \cap {"install", "rmdir"} = {},
                        ~Running(Setup), manifest = None
                 PROVE  /\ files = Before /\ pre.dirs \subseteq dirs
                        /\ pre.files = {} => \A d \in dirs \ pre.dirs : ~Empty(d)
        BY DEF TargetRestored, Before, Setup
    <2>1. \A o \in Operators : StepOf(o) \notin Setup
          BY DEF Running, StepOf
    <2>2. pre.dirs \subseteq dirs /\ (pre.files # {} => files = Before)
          BY DEF TargetInv, FoundKept, UserKept
    <2>3. ASSUME pre.files = {} PROVE files = Before /\ \A d \in dirs \ pre.dirs : ~Empty(d)
      <3>1. Sound /\ "rmdir" \notin died
            BY <2>3 DEF Sound
      <3>2. NoConflict
            BY <2>1, <3>1 DEF TargetInv, FilesInv, WholeOrGone, Setup
      <3>3. files = Before
        <4>1. files \in [Files -> {"absent", "user", "generated"}] /\ \A f \in Files : files[f] = "absent"
              BY <3>2 DEF NoConflict, Exists, TargetInv, StepsInv, TypeOK
        <4> QED BY <2>3, <4>1 DEF Before
      <3>4. dirs \subseteq pre.dirs \cup Kept
            BY <2>1, <3>1 DEF TargetInv, DirsInv
      <3> QED BY <3>3, <3>4 DEF Kept, Empty
    <2> QED BY <2>2, <2>3
  <1> QED BY <1>1, TargetHolds, PTL

(* An ACTIVE task has a whole installation under it and a companion of its   *)
(* own, and status and the handoff agree, for any plan and any ids.          *)
THEOREM ActiveTasksWhole == Spec => []ActiveIsWhole
  <1>1. TargetInv => ActiveIsServed
    <2> SUFFICES ASSUME TargetInv, Sound, task # None
                 PROVE  /\ Healthy
                        /\ Handoff(task, results[PathOf(task)]) => Status \in {"BLOCKED", "RESULT_READY"}
        BY DEF ActiveIsServed, Sound
    <2>1. Healthy
          BY DEF TargetInv, FilesInv, WholeOrGone, HasActiveTask
    <2>2. ASSUME Handoff(task, results[PathOf(task)])
          PROVE  TaskStatus(task) \in {"BLOCKED", "RESULT_READY"}
          BY <2>2 DEF Handoff, TaskStatus
    <2> QED BY <2>1, <2>2 DEF Status, Healthy, InstallationIsValid
  <1>2. TargetInv => CompanionAgrees
    <2> SUFFICES ASSUME TargetInv, ~overlap, died = {}, ~Running({"companion"}), task # None
                 PROVE  companion \in {None, task}
        BY DEF CompanionAgrees
    <2>1. \A o \in Operators : StepOf(o) # "companion"
          BY DEF Running, StepOf
    <2> QED BY <2>1 DEF TargetInv, CompanionInv
  <1>3. TargetInv => ActiveIsWhole
        BY <1>1, <1>2 DEF ActiveIsWhole
  <1> QED BY <1>3, TargetHolds, PTL

(* An ACTIVE task is only ever replaced by its own next attempt.             *)
THEOREM ActiveTasksReplaced == Spec => OneActiveTask
  <1> DEFINE Replaces == ~overlap' /\ task # None /\ task' \notin {None, task}
                           => task'.id = task.id /\ task'.attempt = task.attempt + 1
  <1>1. TargetInv /\ [Next]_vars => [Replaces]_vars
    <2> SUFFICES ASSUME TargetInv, [Next]_vars, ~overlap', task # None, task' \notin {None, task}
                 PROVE  task'.id = task.id /\ task'.attempt = task.attempt + 1
        OBVIOUS
    <2>1. ~overlap
          BY CmdMoves DEF TargetInv
    <2>2. \E o \in Operators : WriteTask(o)
      <3>1. ASSUME NEW o \in Operators,
                   \/ Install(o) \/ Uninstall(o) \/ TaskResume(o)
                   \/ \E id \in Ids, c \in Companions, p \in Pinned : TaskCreate(o, id, c, p)
            PROVE  task' = task
            BY <3>1 DEF Install, Uninstall, TaskResume, TaskCreate, Start, taskVars
      <3>2. ASSUME NEW o \in Operators,
                   \/ InstallFile(o) \/ InstallManifest(o) \/ UninstallFile(o)
                   \/ UninstallManifest(o) \/ UninstallDirs(o) \/ WriteCompanion(o) \/ Crash(o)
            PROVE  task' = task
            BY <3>2 DEF InstallFile, InstallManifest, UninstallFile, UninstallManifest,
                        UninstallDirs, WriteCompanion, Crash, taskVars
      <3>3. ASSUME NEW e \in Executors,
                   \/ Begin(e) \/ \E s \in {"PASS", "BLOCKED"} : Publish(e, s)
                   \/ Accept(e) \/ Remove(e) \/ Clean(e) \/ ExecutorDies(e)
            PROVE  task' \in {task, None}
            BY <3>3 DEF Begin, Publish, Accept, Remove, Clean, ExecutorDies, taskVars
      <3>4. Abandon \/ Commit \/ UNCHANGED vars => task' \in {task, None}
            BY DEF Abandon, Commit, vars, taskVars
      <3> QED BY <3>1, <3>2, <3>3, <3>4 DEF Next
    <2>3. PICK o \in Operators : WriteTask(o)
          BY <2>2
    <2>4. StepOf(o) = "resume"
          BY <2>1, <2>3 DEF WriteTask, StepOf, TargetInv, LineInv, HasActiveTask
    <2>5. Follows(cmd[o].task) /\ task' = cmd[o].task
          BY <2>1, <2>3, <2>4 DEF WriteTask, TargetInv, LineInv
    <2> QED BY <2>5 DEF Follows
  <1>2. Spec => [][Replaces]_vars
        BY <1>1, TargetHolds, PTL DEF Spec
  <1> QED BY <1>2 DEF OneActiveTask
=============================================================================
