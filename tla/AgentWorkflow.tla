--------------------------- MODULE AgentWorkflow ---------------------------
(***************************************************************************)
(* The agent-workflow CLI (bin/agent-workflow.mjs) over the files of one   *)
(* target repository: install, uninstall, task create and task resume, run *)
(* by several operators that may be killed between any two writes; and the *)
(* executors that work on the ACTIVE task, as the installed protocol asks: *)
(* read the task, publish a stamped result, validate the handoff (which is *)
(* code of this repository), remove the task.                              *)
(*                                                                         *)
(* A command is one action that reads and checks, then one action for each *)
(* file it writes. A command that refuses changes nothing and has no       *)
(* action. Temporary files, named by pid and read by nobody, are left out. *)
(***************************************************************************)
EXTENDS Naturals, Sequences, FiniteSets

CONSTANTS
  Operators,   \* who runs commands, one at a time each
  Executors,   \* who executes tasks
  Plan,        \* copyPlan: the managed files in the order they are written
  DirOf,       \* the directory of each managed file
  TaskDir, ResultDir,
  Found,       \* what a target may hold before: [files, dirs]
  Companions,  \* whether a task is created with --companion
  Pinned,      \* whether it is created with --source-commit
  Ids,         \* task ids an operator uses, again after a task has ended
  MaxStamps,   \* task documents written (create and resume)
  MaxAttempts, MaxCommits, MaxFaults,
  None

ASSUME AgentWorkflowAssumption ==
  /\ MaxStamps \in Nat /\ MaxFaults \in Nat
  /\ MaxAttempts \in Nat \ {0} /\ MaxCommits \in Nat \ {0}
  /\ Companions \subseteq BOOLEAN /\ Pinned \subseteq BOOLEAN
  /\ Plan \in Seq(DOMAIN DirOf) /\ Plan # <<>>

Files == {Plan[i] : i \in DOMAIN Plan}
Dirs == {DirOf[f] : f \in Files}
MarkerLast == Plan[Len(Plan)]
Marker == Plan[1]     \* docs/agent-workflow.md, which task create looks for
Latest == 0           \* source_commit: LATEST

ASSUME FoundAssumption ==
  /\ \A f \in Found : f.files \subseteq Files /\ f.dirs \subseteq Dirs
  /\ TaskDir \in Dirs /\ ResultDir \in Dirs

VARIABLES
  files,       \* [Files -> {"absent", "user", "generated"}]
  dirs,        \* directories that exist
  manifest,    \* None, or the generated_dirs of .agent-workflow-install.json
  task,        \* ACTIVE_TASK.json, or None
  companion,   \* ACTIVE_TASK.md: the task it renders, or None
  results,     \* Result Contracts by path, or None
  commits,     \* the ACTIVE_TASK.json each commit of the branch holds
  cmd,         \* what each operator's command has still to do
  work,        \* what each executor is doing
  stamps,      \* task documents written so far
  pre,         \* the files and directories found at the start
  overlap,     \* two commands have run at the same time
  died,        \* steps a command was killed at
  faults

target == <<files, dirs, manifest>>
taskVars == <<task, companion>>
history == <<pre, overlap, died, faults>>
vars == <<target, taskVars, results, commits, cmd, work, stamps, history>>

Idle == [step |-> "idle"]
Resting == [step |-> "resting"]

(* A task document: when it was written (generated_at, resumed_at), its id,  *)
(* the attempt its result_contract names, metadata.companion, source_commit. *)
Tasks == [at : 1..MaxStamps, id : Ids, attempt : 1..MaxAttempts,
          companion : BOOLEAN, source : Latest..MaxCommits]

Paths == Ids \X (1..MaxAttempts)
PathOf(t) == <<t.id, t.attempt>>

(* A Result Contract names its task and the exact commit it started from.    *)
(* "of" is the document its executor worked on, which no file records.       *)
Results == [task_id : Ids, path : Paths, source : 1..MaxCommits,
            status : {"PASS", "BLOCKED"}, of : Tasks]

CmdSteps ==
  [step : {"idle"}]
    \cup [step : {"install", "uninstall"}, left : 0..Len(Plan), dirs : SUBSET Dirs]
    \cup [step : {"rmdir"}, dirs : SUBSET Dirs]
    \cup [step : {"create", "resume", "companion"}, task : Tasks]

WorkSteps ==
  [step : {"resting", "accepted", "clean"}]
    \cup [step : {"run"}, of : Tasks, source : 1..MaxCommits]
    \cup [step : {"published"}, of : Tasks]

TypeOK ==
  /\ files \in [Files -> {"absent", "user", "generated"}]
  /\ dirs \in SUBSET Dirs
  /\ manifest \in {None} \cup SUBSET Dirs
  /\ task \in {None} \cup Tasks
  /\ companion \in {None} \cup Tasks
  /\ DOMAIN results = Paths
  /\ \A p \in Paths : results[p] \in {None} \cup Results
  /\ Len(commits) \in 1..MaxCommits
  /\ \A i \in DOMAIN commits : commits[i] \in {None} \cup Tasks
  /\ \A o \in Operators : cmd[o] \in CmdSteps
  /\ \A e \in Executors : work[e] \in WorkSteps
  /\ stamps \in 0..MaxStamps
  /\ faults \in 0..MaxFaults
  /\ overlap \in BOOLEAN

Init ==
  /\ pre \in Found
  /\ files = [f \in Files |-> IF f \in pre.files THEN "user" ELSE "absent"]
  /\ dirs = pre.dirs
  /\ manifest = None /\ task = None /\ companion = None
  /\ results = [p \in Paths |-> None]
  /\ commits = <<None>>
  /\ cmd = [o \in Operators |-> Idle]
  /\ work = [e \in Executors |-> Resting]
  /\ stamps = 0 /\ faults = 0 /\ overlap = FALSE /\ died = {}

\* A file that is not there is no document: not a list of directories, no result.
ASSUME NoneAssumption == None \notin Results /\ \A D \in SUBSET Dirs : D # None

-----------------------------------------------------------------------------
(* What the commands look at.                                                *)

Exists(f) == files[f] # "absent"
HasActiveTask == task # None \/ companion # None

Empty(d) ==
  /\ \A f \in Files : DirOf[f] = d => ~Exists(f)
  /\ d = ResultDir => \A p \in Paths : results[p] = None
  /\ d = TaskDir => ~HasActiveTask

InstallationIsValid == manifest # None /\ \A f \in Files : Exists(f)

\* doctor exits 0. (A task document is written whole and validated first.)
Healthy == InstallationIsValid

\* What both status and validate handoff ask of a result's source commit.
SourceMatches(t, r) ==
  IF t.source = Latest THEN r.source \in DOMAIN commits ELSE r.source = t.source

HandoffUncommitted(t, r) ==
  r # None /\ r.task_id = t.id /\ r.path = PathOf(t) /\ SourceMatches(t, r)

\* Only validate handoff looks into that commit: it must hold this very task.
Handoff(t, r) ==
  /\ r # None
  /\ r.task_id = t.id
  /\ r.path = PathOf(t)
  /\ SourceMatches(t, r)
  /\ t.source = Latest => commits[r.source] = t

TaskStatus(t) ==
  LET r == results[PathOf(t)]
  IN IF r = None THEN "READY"
     ELSE IF r.task_id # t.id \/ r.path # PathOf(t) \/ ~SourceMatches(t, r)
       THEN "INVALID"
     ELSE IF r.status = "BLOCKED" THEN "BLOCKED" ELSE "RESULT_READY"

Status ==
  IF manifest = None THEN "UNINSTALLED"
  ELSE IF ~InstallationIsValid THEN "INVALID"
  ELSE IF task = None THEN "IDLE" ELSE TaskStatus(task)

-----------------------------------------------------------------------------
(* Commands. The first step of each is its checks.                           *)

Start(o, c) ==
  /\ cmd[o] = Idle
  /\ cmd' = [cmd EXCEPT ![o] = c]
  /\ overlap' = (overlap \/ \E x \in Operators \ {o} : cmd[x] # Idle)
  /\ UNCHANGED <<target, taskVars, results, commits, work, pre, died, faults>>

Goto(o, c) == cmd' = [cmd EXCEPT ![o] = c]

OnlyMarkerClear == ~Exists(Marker)
NoConflict == \A f \in Files : ~Exists(f)

Install(o) ==
  /\ manifest = None
  /\ NoConflict
  /\ Start(o, [step |-> "install", left |-> Len(Plan), dirs |-> Dirs \ dirs])
  /\ UNCHANGED stamps

Next1(c) == Plan[Len(Plan) - c.left + 1]

InstallFile(o) ==
  /\ cmd[o].step = "install" /\ cmd[o].left > 0
  /\ LET f == Next1(cmd[o])
     IN /\ files' = [files EXCEPT ![f] = "generated"]
        /\ dirs' = dirs \cup {DirOf[f]}
  /\ Goto(o, [cmd[o] EXCEPT !.left = @ - 1])
  /\ UNCHANGED <<manifest, taskVars, results, commits, work, stamps, history>>

InstallManifest(o) ==
  /\ cmd[o].step = "install" /\ cmd[o].left = 0
  /\ manifest' = cmd[o].dirs
  /\ Goto(o, Idle)
  /\ UNCHANGED <<files, dirs, taskVars, results, commits, work, stamps, history>>

Uninstall(o) ==
  /\ manifest # None
  /\ ~HasActiveTask
  /\ Start(o, [step |-> "uninstall", left |-> Len(Plan), dirs |-> manifest])
  /\ UNCHANGED stamps

UninstallFile(o) ==
  /\ cmd[o].step = "uninstall" /\ cmd[o].left > 0
  /\ files' = [files EXCEPT ![Next1(cmd[o])] = "absent"]
  /\ Goto(o, [cmd[o] EXCEPT !.left = @ - 1])
  /\ UNCHANGED <<dirs, manifest, taskVars, results, commits, work, stamps, history>>

\* The manifest goes last of the files, then the directories it lists.
UninstallManifest(o) ==
  /\ cmd[o].step = "uninstall" /\ cmd[o].left = 0
  /\ manifest' = None
  /\ Goto(o, [step |-> "rmdir", dirs |-> cmd[o].dirs])
  /\ UNCHANGED <<files, dirs, taskVars, results, commits, work, stamps, history>>

UninstallDirs(o) ==
  /\ cmd[o].step = "rmdir"
  /\ dirs' = dirs \ {d \in cmd[o].dirs : Empty(d)}
  /\ Goto(o, Idle)
  /\ UNCHANGED <<files, manifest, taskVars, results, commits, work, stamps, history>>

(* Create checks that no ACTIVE task exists, then runs the validator in      *)
(* another process, then renames its file over ACTIVE_TASK.json.             *)
TaskCreate(o, id, withCompanion, pinned) ==
  /\ Exists(Marker)
  /\ ~HasActiveTask
  /\ stamps < MaxStamps
  /\ Start(o, [step |-> "create",
               task |-> [at |-> stamps + 1, id |-> id, attempt |-> 1,
                         companion |-> withCompanion,
                         source |-> IF pinned THEN Len(commits) ELSE Latest]])
  /\ stamps' = stamps + 1

SameAttempt(t) == [t EXCEPT !.at = stamps + 1]
NextAttempt(t) == [t EXCEPT !.at = stamps + 1, !.attempt = @ + 1]

TaskResume(o) ==
  /\ task # None
  /\ task.attempt < MaxAttempts
  /\ Handoff(task, results[PathOf(task)])
  /\ results[PathOf(task)].status = "BLOCKED"
  /\ results[<<task.id, task.attempt + 1>>] = None
  /\ stamps < MaxStamps
  /\ Start(o, [step |-> "resume", task |-> NextAttempt(task)])
  /\ stamps' = stamps + 1

OfOldTask(t) ==
  IF t.companion THEN [step |-> "companion", task |-> task] ELSE Idle

AfterTask(t) ==
  IF t.companion THEN [step |-> "companion", task |-> t] ELSE Idle

\* The rename of create and of resume: it replaces what is there by now.
WriteTask(o) ==
  /\ cmd[o].step \in {"create", "resume"}
  /\ task' = cmd[o].task
  /\ dirs' = dirs \cup {TaskDir}
  /\ Goto(o, AfterTask(cmd[o].task))
  /\ UNCHANGED <<files, manifest, companion, results, commits, work, stamps, history>>

WriteCompanion(o) ==
  /\ cmd[o].step = "companion"
  /\ companion' = cmd[o].task
  /\ Goto(o, Idle)
  /\ UNCHANGED <<target, task, results, commits, work, stamps, history>>

\* An operator's command is killed: what it had still to write is not written.
Crash(o) ==
  /\ cmd[o] # Idle
  /\ faults < MaxFaults
  /\ faults' = faults + 1
  /\ died' = died \cup {cmd[o].step}
  /\ Goto(o, Idle)
  /\ UNCHANGED <<target, taskVars, results, commits, work, stamps, pre, overlap>>

-----------------------------------------------------------------------------
(* Executors and people, as the installed documents ask them to work. Only   *)
(* the stamp and the handoff are code of this repository.                    *)

Do(e, w) ==
  /\ work' = [work EXCEPT ![e] = w]
  /\ UNCHANGED <<cmd, stamps, history>>

Begin(e) ==
  /\ work[e] = Resting
  /\ task # None
  /\ Do(e, [step |-> "run", of |-> task,
            source |-> IF task.source = Latest THEN Len(commits) ELSE task.source])
  /\ UNCHANGED <<target, taskVars, results, commits>>

\* validate result --stamp: the result's own fields are checked, no task is.
Publish(e, status) ==
  /\ work[e].step = "run"
  /\ LET t == work[e].of
     IN /\ results' = [results EXCEPT ![PathOf(t)] =
             [task_id |-> t.id, path |-> PathOf(t), source |-> work[e].source,
              status |-> status, of |-> t]]
        /\ Do(e, [step |-> "published", of |-> t])
  /\ dirs' = dirs \cup {ResultDir}
  /\ UNCHANGED <<files, manifest, taskVars, commits>>

\* The result file handed over is the one the ACTIVE task of now names.
Accepted(t) ==
  /\ task # None
  /\ PathOf(task) = PathOf(t)
  /\ Handoff(task, results[PathOf(t)])
  /\ results[PathOf(t)].status = "PASS"

Accept(e) ==
  /\ work[e].step = "published"
  /\ Do(e, IF Accepted(work[e].of) THEN [step |-> "accepted"] ELSE Resting)
  /\ UNCHANGED <<target, taskVars, results, commits>>

Remove(e) ==
  /\ work[e].step = "accepted"
  /\ task' = None
  /\ Do(e, [step |-> "clean"])
  /\ UNCHANGED <<target, companion, results, commits>>

Clean(e) ==
  /\ work[e].step = "clean"
  /\ companion' = None
  /\ Do(e, Resting)
  /\ UNCHANGED <<target, task, results, commits>>

ExecutorDies(e) ==
  /\ work[e].step \in {"run", "clean"}
  /\ Do(e, Resting)
  /\ UNCHANGED <<target, taskVars, results, commits>>

\* "Complete or intentionally remove it before creating another."
Abandon ==
  /\ HasActiveTask
  /\ task' = None /\ companion' = None
  /\ UNCHANGED <<target, results, commits, cmd, work, stamps, history>>

Commit ==
  /\ Len(commits) < MaxCommits
  /\ commits' = Append(commits, task)
  /\ UNCHANGED <<target, taskVars, results, cmd, work, stamps, history>>

Next ==
  \/ \E o \in Operators :
       \/ Install(o) \/ InstallFile(o) \/ InstallManifest(o)
       \/ Uninstall(o) \/ UninstallFile(o) \/ UninstallManifest(o) \/ UninstallDirs(o)
       \/ \E id \in Ids, c \in Companions, p \in Pinned : TaskCreate(o, id, c, p)
       \/ TaskResume(o) \/ WriteTask(o) \/ WriteCompanion(o) \/ Crash(o)
  \/ \E e \in Executors :
       \/ Begin(e) \/ \E s \in {"PASS", "BLOCKED"} : Publish(e, s)
       \/ Accept(e) \/ Remove(e) \/ Clean(e) \/ ExecutorDies(e)
  \/ Abandon \/ Commit

Spec == Init /\ [][Next]_vars

-----------------------------------------------------------------------------
(* What one operator at a time may rely on, and what holds regardless.       *)

Running(steps) == \E o \in Operators : cmd[o].step \in steps

(* Uninstall leaves the target as install found it: every file of the user   *)
(* is there, and of the directories only those that hold something remain.   *)
(* (A command killed halfway through install or rmdir voids it.)             *)
TargetRestored ==
  (/\ ~overlap /\ died \cap {"install", "rmdir"} = {}
   /\ ~Running({"install", "uninstall", "rmdir"})
   /\ manifest = None)
  => /\ files = [f \in Files |-> IF f \in pre.files THEN "user" ELSE "absent"]
     /\ pre.dirs \subseteq dirs
     /\ pre.files = {} => \A d \in dirs \ pre.dirs : ~Empty(d)

(* An ACTIVE task has a whole installation under it, so that doctor, status  *)
(* and the installed validator serve it, and status agrees with the handoff. *)
ActiveIsServed ==
  (~overlap /\ "install" \notin died /\ pre.files = {} /\ task # None)
  => /\ Healthy
     /\ Handoff(task, results[PathOf(task)]) => Status \in {"BLOCKED", "RESULT_READY"}

(* A result the handoff accepts for a task on LATEST is the work of this very *)
(* document, whatever ids were used again, whoever resumed, however late its  *)
(* executor was: the commit it started from holds the document.               *)
HandoffIsFresh ==
  \A p \in Paths :
    (/\ task # None /\ results[p] # None
     /\ task.source = Latest
     /\ Handoff(task, results[p]))
    => results[p].of = task

(* The companion, when there is one beside a task, renders that task.        *)
CompanionAgrees ==
  (~overlap /\ died = {} /\ ~Running({"companion"}))
  => task = None \/ companion \in {None, task}

(* What the files beside an ACTIVE task promise, both of the two above.      *)
ActiveIsWhole == ActiveIsServed /\ CompanionAgrees

(* One ACTIVE task: it is only ever replaced by its own next attempt.        *)
OneActiveTask ==
  [][(~overlap' /\ task # None /\ task' \notin {None, task})
     => task'.id = task.id /\ task'.attempt = task.attempt + 1]_vars
=============================================================================
