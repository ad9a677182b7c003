---------------------------- MODULE ExecutorRun ----------------------------
(***************************************************************************)
(* One dispatch to a CLI executor, from #launch to collectResult           *)
(* (lib/executors/codex.mjs, claude.mjs), and the isolated copy it works   *)
(* in (isolated-copy-boundary.mjs): prepare takes a manifest of the source *)
(* and copies it, the child edits the copy, and finalize brings the        *)
(* allowed changes back, one path after the other, or undoes them.         *)
(*                                                                         *)
(* Several runs, of several host processes, share one source tree, which   *)
(* people edit too. Within one process finalize never yields, between two  *)
(* it may be interleaved at every access to the source. Any access to the  *)
(* disk may throw, those of the rollback and of the cleanup as well.       *)
(***************************************************************************)
EXTENDS Naturals

CONSTANTS
  Runs,
  Codex,        \* the runs of the Codex adapter, the others are of Claude's
  NPaths,       \* the files of the tree are 1..NPaths, in sorted order
  Hidden,       \* not copied: .git, .gpt-relay, and secrets when denied
  Allowed,      \* allowed_changes of each run's task
  Forbidden,    \* forbidden_changes of each run's task
  Destructive,  \* the runs authorized to delete
  Starts,       \* the source trees a run may find
  Outputs,      \* what a child may have said when it closes
  MaxEdits, MaxFaults

ASSUME ExecutorRunAssumption ==
  /\ NPaths \in Nat /\ MaxEdits \in Nat /\ MaxFaults \in Nat
  /\ Codex \subseteq Runs /\ Destructive \subseteq Runs
  /\ Runs \cap {"none", "old", "user", "link"} = {}
  /\ Starts \subseteq [1..NPaths -> {"none", "old", "user", "link"}]

Paths == 1..NPaths

(* What is at a path: nothing, the file of the start, one a person wrote, a  *)
(* symbolic link, or the file the child of a run wrote.                      *)
Contents == {"none", "old", "user", "link"} \cup Runs
Trees == [Paths -> Contents]

VARIABLES
  source,      \* the source tree
  phase,       \* where each run is
  base,        \* sourceBaseline
  first,       \* baseline: the copy as it was made
  copy,        \* the copy, and what the child made of it
  output,      \* what the child has said, once it has closed
  cancelled,   \* state.cancelled, of Codex
  left,        \* candidates finalize has still to apply, or to undo
  compared,    \* candidates found equal to sourceBaseline just before
  backups,     \* backups: what is read just after
  late,        \* of those, the ones somebody else has changed since
  edits, faults

data == <<base, first, copy, output>>
vars == <<source, phase, data, cancelled, left, compared, backups, late, edits, faults>>

(* collectResult throws in three ways: "threw", with all undone; "kept", with *)
(* all applied, as the copy could not be removed; "torn", where the rollback  *)
(* itself failed.                                                            *)
Ended == {"passed", "failed", "threw", "kept", "torn", "stopped", "dead"}
Phases == {"new", "listed", "running", "closed", "next", "compared", "saved",
           "rollback"} \cup Ended

TypeOK ==
  /\ source \in Trees
  /\ phase \in [Runs -> Phases]
  /\ base \in [Runs -> Trees] /\ first \in [Runs -> Trees] /\ copy \in [Runs -> Trees]
  /\ backups \in [Runs -> Trees]
  /\ cancelled \in SUBSET Codex
  /\ left \in [Runs -> SUBSET Paths]
  /\ compared \in [Runs -> SUBSET Paths]
  /\ late \in [Runs -> SUBSET Paths]
  /\ \A r \in Runs : late[r] \subseteq compared[r]
  /\ edits \in 0..MaxEdits /\ faults \in 0..MaxFaults

Bare == [p \in Paths |-> "none"]
Silent == [terminal |-> "none", is_error |-> FALSE, bad |-> FALSE, session |-> "same", code |-> 0]

Init ==
  /\ source \in Starts
  /\ phase = [r \in Runs |-> "new"]
  /\ base = [r \in Runs |-> Bare] /\ first = base /\ copy = base /\ backups = base
  /\ output = [r \in Runs |-> Silent]
  /\ cancelled = {}
  /\ left = [r \in Runs |-> {}] /\ compared = left /\ late = left
  /\ edits = 0 /\ faults = 0

-----------------------------------------------------------------------------
Goto(r, ph) == phase' = [phase EXCEPT ![r] = ph]
First(p, S) == p \in S /\ \A q \in S : p <= q
Safe(p) == source[p] # "link"

Fault == faults < MaxFaults /\ faults' = faults + 1

(* c is now at p; the runs that have compared p and are not "by" are late.   *)
Write(p, c, by) ==
  /\ source' = [source EXCEPT ![p] = c]
  /\ late' = [r \in Runs |->
       IF r # by /\ p \in compared[r] THEN late[r] \cup {p} ELSE late[r]]

(* prepare: the manifest, then the copy.                                     *)
Manifest(r) ==
  /\ phase[r] = "new"
  /\ base' = [base EXCEPT ![r] = source]
  /\ Goto(r, "listed")
  /\ UNCHANGED <<source, first, copy, output, cancelled, left, compared, backups,
                 late, edits, faults>>

Copied == [p \in Paths |-> IF p \in Hidden \/ ~Safe(p) THEN "none" ELSE source[p]]

Launch(r) ==
  /\ phase[r] = "listed"
  /\ first' = [first EXCEPT ![r] = Copied]
  /\ copy' = [copy EXCEPT ![r] = Copied]
  /\ Goto(r, "running")
  /\ UNCHANGED <<source, base, output, cancelled, left, compared, backups,
                 late, edits, faults>>

CancelOfAny(r) ==
  /\ phase[r] = "running"
  /\ r \notin cancelled
  /\ cancelled' = cancelled \cup {r}
  /\ UNCHANGED <<source, phase, data, left, compared, backups, late, edits, faults>>

\* The handle's cancel, which smoke calls on its timeout: a signal, no more.
Cancel(r) ==
  /\ phase[r] = "running"
  /\ r \notin cancelled
  /\ cancelled' = cancelled \cup ({r} \cap Codex)
  /\ UNCHANGED <<source, phase, data, left, compared, backups, late, edits, faults>>

\* A permission event: the daemon cancels, and collects neither events nor result.
Stop(r) ==
  /\ phase[r] = "running"
  /\ cancelled' = cancelled \cup ({r} \cap Codex)
  /\ Goto(r, "stopped")
  /\ UNCHANGED <<source, data, left, compared, backups, late, edits, faults>>

(* The child closes. Its copy is its own, so its edits and its lines, parsed *)
(* into terminal, sessionId and invalidLines, are one step.                  *)
Closes(r, out) ==
  /\ phase[r] = "running"
  /\ \E made \in [Paths -> {"as it was", "none", "link", r}] :
       copy' = [copy EXCEPT ![r] =
         [p \in Paths |-> IF made[p] = "as it was" THEN copy[r][p] ELSE made[p]]]
  /\ output' = [output EXCEPT ![r] = out]
  /\ Goto(r, "closed")
  /\ UNCHANGED <<source, base, first, cancelled, left, compared, backups,
                 late, edits, faults>>

\* turn.completed or turn.failed, the last one; thread.started.
CodexClose(r, out) == r \in Codex /\ ~out.is_error /\ Closes(r, out)

\* result, the last one, with a subtype and is_error; system init.
ClaudeClose(r, out) == r \notin Codex /\ Closes(r, out)

-----------------------------------------------------------------------------
(* collectResult and finalize.                                               *)

Clean(r) == output[r].session = "same" /\ ~output[r].bad /\ output[r].code = 0

CodexCompleted(r) == Clean(r) /\ output[r].terminal = "completed"
CodexPassed(r) == CodexCompleted(r) /\ r \notin cancelled

ClaudePassed(r) == Clean(r) /\ output[r].terminal = "completed" /\ ~output[r].is_error

Passed(r) == IF r \in Codex THEN CodexPassed(r) ELSE ClaudePassed(r)

Changed(r) == {p \in Paths : first[r][p] # copy[r][p]}

InBounds(r, p) == p \in Allowed[r] \ Forbidden[r]

Eligible(r) == {p \in Changed(r) : InBounds(r, p) /\ copy[r][p] # "link" /\ Safe(p)}
Candidates(r) == {p \in Eligible(r) : copy[r][p] = "none" => r \in Destructive}

Fail(r) ==
  /\ phase[r] = "closed" /\ ~Passed(r)
  /\ Goto(r, "failed")
  /\ UNCHANGED <<source, data, cancelled, left, compared, backups, late, edits, faults>>

\* The first comparison, of all: nothing is applied yet and nothing undone.
Select(r) ==
  /\ phase[r] = "closed" /\ Passed(r)
  /\ IF \E p \in Eligible(r) : source[p] # base[r][p]
     THEN Goto(r, "threw") /\ UNCHANGED left
     ELSE Goto(r, "next") /\ left' = [left EXCEPT ![r] = Candidates(r)]
  /\ UNCHANGED <<source, data, cancelled, compared, backups, late, edits, faults>>

Turn(r, p) == phase[r] = "next" /\ First(p, left[r])

Same(r, p) == Safe(p)
StillBase(r, p) == Safe(p) /\ source[p] = base[r][p]

AllButLast(r) == compared[r] \ left[r]
ToUndo(r) == compared[r]

Rollback(r) ==
  /\ Goto(r, "rollback")
  /\ left' = [left EXCEPT ![r] = ToUndo(r)]

\* The second comparison, of this candidate.
Compare(r, p) ==
  /\ Turn(r, p)
  /\ IF StillBase(r, p)
     THEN /\ Goto(r, "compared")
          /\ compared' = [compared EXCEPT ![r] = @ \cup {p}]
          /\ UNCHANGED left
     ELSE Rollback(r) /\ UNCHANGED compared
  /\ UNCHANGED <<source, data, cancelled, backups, late, edits, faults>>

\* A link made since is read through, to a file of its maker or to nothing.
Read(p) == IF Safe(p) THEN {source[p]} ELSE {"user", "none"}

Backup(r, p) ==
  /\ phase[r] = "compared" /\ First(p, left[r])
  /\ \E c \in Read(p) : backups' = [backups EXCEPT ![r][p] = c]
  /\ Goto(r, "saved")
  /\ UNCHANGED <<source, data, cancelled, left, compared, late, edits, faults>>

\* The comparison throws, or the read (of a link to a directory, say): of p
\* there is no backup.
ReadFails(r, p) ==
  /\ phase[r] \in {"next", "compared"} /\ First(p, left[r])
  /\ \/ phase[r] = "compared" /\ ~Safe(p) /\ UNCHANGED faults
     \/ Fault
  /\ Goto(r, "rollback")
  /\ left' = [left EXCEPT ![r] = ToUndo(r) \ {p}]
  /\ UNCHANGED <<source, data, cancelled, compared, backups, late, edits>>

\* rm and rename, or for a deletion rm alone, which does not look again.
Deletes(r, p) == copy[r][p] = "none"

Replace(r, p) ==
  /\ phase[r] = "saved" /\ First(p, left[r])
  /\ Safe(p) \/ Deletes(r, p)
  /\ Write(p, copy[r][p], r)
  /\ left' = [left EXCEPT ![r] = @ \ {p}]
  /\ Goto(r, "next")
  /\ UNCHANGED <<data, cancelled, compared, backups, edits, faults>>

\* An access throws before rm, before rename, or after it (the staged file).
FailedWrite(r, p, c) ==
  \/ UNCHANGED <<source, late>>
  \/ Safe(p) /\ Write(p, "none", r)
  \/ Safe(p) /\ Write(p, c, r)

ReplaceFails(r, p) ==
  /\ phase[r] = "saved" /\ First(p, left[r])
  /\ \/ ~Safe(p) /\ ~Deletes(r, p) /\ UNCHANGED <<source, late, faults>>
     \/ Fault /\ FailedWrite(r, p, copy[r][p])
  /\ Rollback(r)
  /\ UNCHANGED <<data, cancelled, compared, backups, edits>>

Undo(r, p) ==
  /\ phase[r] = "rollback" /\ First(p, left[r])
  /\ IF Safe(p) THEN Write(p, backups[r][p], r) ELSE UNCHANGED <<source, late>>
  /\ left' = [left EXCEPT ![r] = @ \ {p}]
  /\ UNCHANGED <<phase, data, cancelled, compared, backups, edits, faults>>

\* The rollback throws at p: what is left of it is never undone.
UndoFails(r, p) ==
  /\ phase[r] = "rollback" /\ First(p, left[r])
  /\ Fault
  /\ FailedWrite(r, p, backups[r][p])
  /\ Goto(r, "torn")
  /\ UNCHANGED <<data, cancelled, left, compared, backups, edits>>

End(r) ==
  /\ left[r] = {}
  /\ \/ phase[r] = "next" /\ Goto(r, "passed")
     \/ phase[r] = "rollback" /\ Goto(r, "threw")
  /\ UNCHANGED <<source, data, cancelled, left, compared, backups, late, edits, faults>>

\* An access throws before anything is applied, or the removal of the copy does,
\* of a run that applied nothing or all.
FinalizeFails(r) ==
  /\ Fault
  /\ \/ phase[r] = "closed" /\ Goto(r, "threw")
     \/ phase[r] = "next" /\ left[r] = {} /\ Goto(r, "kept")
  /\ UNCHANGED <<source, data, cancelled, left, compared, backups, late, edits>>

\* The host process dies: nobody finishes or undoes what it had begun.
Crash(r) ==
  /\ phase[r] \notin Ended \cup {"new"}
  /\ Fault
  /\ Goto(r, "dead")
  /\ UNCHANGED <<source, data, cancelled, left, compared, backups, late, edits>>

\* A person writes, removes or links a file of the source.
Edit(p, c) ==
  /\ edits < MaxEdits
  /\ source[p] # c
  /\ edits' = edits + 1
  /\ Write(p, c, "user")
  /\ UNCHANGED <<phase, data, cancelled, left, compared, backups, faults>>

Next ==
  \/ \E r \in Runs :
       \/ Manifest(r) \/ Launch(r) \/ Cancel(r) \/ Stop(r)
       \/ \E out \in Outputs : CodexClose(r, out) \/ ClaudeClose(r, out)
       \/ Fail(r) \/ Select(r) \/ End(r) \/ FinalizeFails(r) \/ Crash(r)
       \/ \E p \in Paths :
            \/ Compare(r, p) \/ Backup(r, p) \/ ReadFails(r, p)
            \/ Replace(r, p) \/ ReplaceFails(r, p) \/ Undo(r, p) \/ UndoFails(r, p)
  \/ \E p \in Paths, c \in {"user", "none", "link"} : Edit(p, c)

Spec == Init /\ [][Next]_vars

-----------------------------------------------------------------------------
(* A finalize that ends has brought back each file it set out to, or, once    *)
(* one could not be, put each back as it was, except where somebody else     *)
(* wrote after the run had compared the file. Only a rollback that fails     *)
(* itself stops halfway: the files before the one it failed at are as they   *)
(* were; this one and those after it are as they were, as the run made them, *)
(* or gone, and never the work of a third.                                   *)
AllOrNothing ==
  \A r \in Runs : \A p \in compared[r] \ late[r] :
    /\ phase[r] \in {"passed", "kept"} => source[p] = copy[r][p]
    /\ phase[r] = "threw" => source[p] = base[r][p]
    /\ phase[r] = "torn" =>
         \/ source[p] = base[r][p]
         \/ p \in left[r] /\ source[p] \in {copy[r][p], "none"}

(* What a child wrote is in the source only at a path its task allows and    *)
(* does not forbid, and nothing goes that the task may not delete: after a   *)
(* crash, a rollback and beside another run as well.                         *)
ScopeKept ==
  /\ \A r \in Runs, p \in Paths : source[p] = r => p \in Allowed[r] \ Forbidden[r]
  /\ \A r \in Runs : \A p \in compared[r] :
       /\ p \in Allowed[r] \ Forbidden[r]
       /\ copy[r][p] = "none" => r \in Destructive

(* Nothing is in the source of a run whose child failed, or that was stopped *)
(* for a permission or (Codex) cancelled.                                    *)
OnlyPassedWork ==
  \A p \in Paths : source[p] \in Runs =>
    LET r == source[p]
    IN phase[r] \notin {"new", "listed", "running", "closed", "stopped", "failed"}
       /\ r \notin cancelled

(* A run overwrites somebody else's change, of a person or of another run,   *)
(* only if it was made after the run compared that very file.                *)
ChangesKept ==
  [][\A r \in Runs, p \in Paths :
       (source'[p] # source[p] /\ <<phase'[r], left'[r]>> # <<phase[r], left[r]>>)
       => /\ p \in compared[r]
          /\ p \in late[r] \/ source[p] \in {base[r][p], copy[r][p], "none"}]_vars

(* Whose work may be in the source, both of the two above: of a run that      *)
(* passed, at a path its task gave it.                                        *)
OnlyDueWork == ScopeKept /\ OnlyPassedWork
=============================================================================
