------------------------- MODULE ExecutorRunProofs -------------------------
(***************************************************************************)
(* Proofs about ExecutorRun, for any runs, trees, scopes and bounds: any   *)
(* number of hosts bring their copies back over one source, while people   *)
(* edit it and hosts die.                                                  *)
(*                                                                         *)
(* Two things are kept about a run r. What it is going to write is due:    *)
(* in its scope, made by its own child, after it passed. And of a file it  *)
(* has compared and nobody else wrote since, it always knows the state:    *)
(* "late" takes the file out of its claims the moment another writes it.   *)
(***************************************************************************)
EXTENDS ExecutorRun, TLAPS

Early == {"new", "listed", "running", "closed", "stopped", "failed"}
Applying == {"next", "compared", "saved"}

\* What the child of r made that finalize may bring back.
Due(r) ==
  {p \in Allowed[r] \ Forbidden[r] :
     copy[r][p] = r \/ (copy[r][p] = "none" /\ r \in Destructive)}

DueInv ==
  \A r \in Runs :
    /\ left[r] \subseteq Due(r) /\ compared[r] \subseteq Due(r)
    /\ \A p \in Paths : first[r][p] # copy[r][p] => copy[r][p] \in {"none", "link", r}

StageInv ==
  \A r \in Runs :
    /\ phase[r] \in Early => left[r] = {} /\ compared[r] = {}
    /\ phase[r] \in Applying \cup {"rollback"} => r \notin cancelled

\* The content c of a path p is nobody's, or that of a run that passed.
Legit(c, p) ==
  c \in Runs => /\ p \in Allowed[c] \ Forbidden[c]
                /\ phase[c] \notin Early /\ c \notin cancelled

LegitInv ==
  \A p \in Paths : Legit(source[p], p) /\ \A r \in Runs : Legit(backups[r][p], p)

ScopeInv == TypeOK /\ DueInv /\ StageInv /\ LegitInv

-----------------------------------------------------------------------------
(* A write leaves every other path as it is.                                 *)
LEMMA Written ==
  ASSUME source \in Trees, NEW p \in Paths, NEW c \in Contents, NEW by, Write(p, c, by),
         late \in [Runs -> SUBSET Paths]
  PROVE  /\ source' \in Trees
         /\ source'[p] = c
         /\ \A q \in Paths \ {p} : source'[q] = source[q]
         /\ late' \in [Runs -> SUBSET Paths]
         /\ \A r \in Runs : late'[r] = IF r # by /\ p \in compared[r] THEN late[r] \cup {p} ELSE late[r]
  BY DEF Write, Trees

LEMMA WrittenTypes ==
  ASSUME TypeOK, NEW p \in Paths, NEW c \in Contents, NEW by, Write(p, c, by)
  PROVE  /\ source' \in Trees
         /\ late' \in [Runs -> SUBSET Paths]
         /\ \A r \in Runs : late'[r] \subseteq compared[r]
  <1>1. source \in Trees /\ late \in [Runs -> SUBSET Paths]
        BY DEF TypeOK
  <1>2. \A r \in Runs : late'[r] = IF r # by /\ p \in compared[r] THEN late[r] \cup {p} ELSE late[r]
        BY <1>1, Written
  <1>3. source' \in Trees /\ late' \in [Runs -> SUBSET Paths]
        BY <1>1, Written
  <1>4. ASSUME NEW r \in Runs PROVE late'[r] \subseteq compared[r]
    <2>1. late[r] \subseteq compared[r]
          BY DEF TypeOK
    <2> QED BY <1>2, <2>1
  <1> QED BY <1>3, <1>4

LEMMA FailedTypes ==
  ASSUME TypeOK, NEW r \in Runs, NEW p \in Paths, NEW c \in Contents,
         UNCHANGED <<source, late>> \/ FailedWrite(r, p, c)
  PROVE  /\ source' \in Trees
         /\ late' \in [Runs -> SUBSET Paths]
         /\ \A k \in Runs : late'[k] \subseteq compared[k]
  <1>1. CASE UNCHANGED <<source, late>>
        BY <1>1 DEF TypeOK
  <1>2. CASE \E x \in {"none", c} : Write(p, x, r)
    <2>1. PICK x \in {"none", c} : Write(p, x, r)
          BY <1>2
    <2> QED BY <2>1, WrittenTypes DEF Contents
  <1> QED BY <1>1, <1>2 DEF FailedWrite

LEMMA ScopeInit == Init => ScopeInv
  <1> SUFFICES ASSUME Init PROVE ScopeInv
      OBVIOUS
  <1>1. source \in Trees /\ Bare \in Trees
        BY ExecutorRunAssumption DEF Init, Trees, Contents, Paths, Bare
  <1>2. TypeOK
        BY <1>1, ExecutorRunAssumption DEF Init, TypeOK, Phases, Ended
  <1>3. DueInv /\ StageInv
        BY DEF Init, DueInv, StageInv, Early, Applying
  <1>4. \A p \in Paths : source[p] \notin Runs /\ Bare[p] \notin Runs
        BY ExecutorRunAssumption DEF Init, Paths, Bare
  <1>5. LegitInv
        BY <1>4 DEF Init, LegitInv, Legit
  <1> QED BY <1>2, <1>3, <1>5 DEF ScopeInv

LEMMA TypeStep == TypeOK /\ [Next]_vars => TypeOK'
  <1> SUFFICES ASSUME TypeOK, [Next]_vars PROVE TypeOK'
      OBVIOUS
  <1> USE DEF TypeOK, Phases, Ended
  <1>1. ASSUME NEW r \in Runs, Manifest(r) PROVE TypeOK'
        BY <1>1 DEF Manifest, Goto
  <1>2. ASSUME NEW r \in Runs, Launch(r) PROVE TypeOK'
    <2>1. Copied \in Trees
          BY DEF Copied, Trees, Contents
    <2> QED BY <1>2, <2>1 DEF Launch, Goto
  <1>3. ASSUME NEW r \in Runs, Cancel(r) PROVE TypeOK'
        BY <1>3 DEF Cancel, data
  <1>4. ASSUME NEW r \in Runs, Stop(r) PROVE TypeOK'
        BY <1>4 DEF Stop, Goto, data
  <1>5. ASSUME NEW r \in Runs, NEW out \in Outputs, Closes(r, out) PROVE TypeOK'
    <2>1. PICK made \in [Paths -> {"as it was", "none", "link", r}] :
            copy' = [copy EXCEPT ![r] =
              [p \in Paths |-> IF made[p] = "as it was" THEN copy[r][p] ELSE made[p]]]
          BY <1>5 DEF Closes
    <2>2. [p \in Paths |-> IF made[p] = "as it was" THEN copy[r][p] ELSE made[p]] \in Trees
      <3>1. copy[r] \in Trees
            OBVIOUS
      <3>2. ASSUME NEW p \in Paths
            PROVE  (IF made[p] = "as it was" THEN copy[r][p] ELSE made[p]) \in Contents
        <4>1. copy[r][p] \in Contents /\ made[p] \in {"as it was", "none", "link", r}
              BY <3>1 DEF Trees
        <4> QED BY <4>1 DEF Contents
      <3> QED BY <3>2 DEF Trees
    <2>3. copy' \in [Runs -> Trees]
          BY <2>1, <2>2
    <2> QED BY <1>5, <2>3 DEF Closes, Goto
  <1>6. ASSUME NEW r \in Runs, Fail(r) \/ FinalizeFails(r) \/ Crash(r) PROVE TypeOK'
        BY <1>6, ExecutorRunAssumption DEF Fail, FinalizeFails, Fault, Crash, Goto, data
  <1>7. ASSUME NEW r \in Runs, Select(r) PROVE TypeOK'
    <2>1. Candidates(r) \subseteq Paths
          BY DEF Candidates, Eligible, Changed
    <2> QED BY <1>7, <2>1 DEF Select, Goto, data
  <1>8. ASSUME NEW r \in Runs, End(r) PROVE TypeOK'
        BY <1>8 DEF End, Goto, data
  <1>9. ASSUME NEW r \in Runs, NEW p \in Paths, Compare(r, p) PROVE TypeOK'
        BY <1>9 DEF Compare, Rollback, ToUndo, Goto, data
  <1>10. ASSUME NEW r \in Runs, NEW p \in Paths, Backup(r, p) PROVE TypeOK'
    <2>1. PICK c \in Read(p) : backups' = [backups EXCEPT ![r][p] = c]
          BY <1>10 DEF Backup
    <2>2. c \in Contents
      <3>1. source[p] \in Contents
            BY DEF Trees
      <3> QED BY <2>1, <3>1 DEF Read, Contents
    <2>3. [backups[r] EXCEPT ![p] = c] \in Trees
          BY <2>2 DEF Trees
    <2> QED BY <1>10, <2>1, <2>3 DEF Backup, Goto, data
  <1>11. ASSUME NEW r \in Runs, NEW p \in Paths, Replace(r, p) PROVE TypeOK'
    <2>1. copy[r][p] \in Contents /\ Write(p, copy[r][p], r)
          BY <1>11 DEF Replace, Trees
    <2> QED BY <1>11, <2>1, WrittenTypes DEF Replace, Goto, data
  <1>12. ASSUME NEW r \in Runs, NEW p \in Paths, ReplaceFails(r, p) PROVE TypeOK'
    <2>1. faults' \in 0..MaxFaults
          BY <1>12, ExecutorRunAssumption DEF ReplaceFails, Fault
    <2>2. copy[r][p] \in Contents
          BY DEF Trees
    <2>3. UNCHANGED <<source, late>> \/ FailedWrite(r, p, copy[r][p])
          BY <1>12 DEF ReplaceFails
    <2> QED BY <1>12, <2>1, <2>2, <2>3, FailedTypes DEF ReplaceFails, Rollback, ToUndo, Goto, data
  <1>13. ASSUME NEW r \in Runs, NEW p \in Paths, Undo(r, p) PROVE TypeOK'
    <2>1. CASE Safe(p)
      <3>1. backups[r][p] \in Contents /\ Write(p, backups[r][p], r)
            BY <1>13, <2>1 DEF Undo, Trees
      <3> QED BY <1>13, <3>1, WrittenTypes DEF Undo, data
    <2>2. CASE ~Safe(p)
          BY <1>13, <2>2 DEF Undo, data
    <2> QED BY <2>1, <2>2
  <1>16. ASSUME NEW r \in Runs, NEW p \in Paths, UndoFails(r, p) PROVE TypeOK'
    <2>1. faults' \in 0..MaxFaults
          BY <1>16, ExecutorRunAssumption DEF UndoFails, Fault
    <2>2. backups[r][p] \in Contents /\ FailedWrite(r, p, backups[r][p])
          BY <1>16 DEF UndoFails, Trees
    <2> QED BY <1>16, <2>1, <2>2, FailedTypes DEF UndoFails, Goto, data
  <1>17. ASSUME NEW r \in Runs, NEW p \in Paths, ReadFails(r, p) PROVE TypeOK'
    <2>1. faults' \in 0..MaxFaults
          BY <1>17, ExecutorRunAssumption DEF ReadFails, Fault
    <2> QED BY <1>17, <2>1 DEF ReadFails, ToUndo, Goto, data
  <1>14. ASSUME NEW p \in Paths, NEW c \in {"user", "none", "link"}, Edit(p, c) PROVE TypeOK'
    <2>1. c \in Contents /\ Write(p, c, "user")
          BY <1>14 DEF Edit, Contents
    <2>2. edits' \in 0..MaxEdits
          BY <1>14, ExecutorRunAssumption DEF Edit
    <2> QED BY <1>14, <2>1, <2>2, WrittenTypes DEF Edit, data
  <1>15. CASE UNCHANGED vars
         BY <1>15 DEF vars, data
  <1> QED BY <1>1, <1>2, <1>3, <1>4, <1>5, <1>6, <1>7, <1>8, <1>9, <1>10, <1>11, <1>12,
             <1>13, <1>14, <1>15, <1>16, <1>17 DEF Next, CodexClose, ClaudeClose

-----------------------------------------------------------------------------
(* What a step does to the phase of one run.                                 *)
LEMMA PassedStay ==
  ASSUME TypeOK, [Next]_vars, NEW c \in Runs, phase[c] \notin Early, c \notin cancelled
  PROVE  phase'[c] \notin Early /\ c \notin cancelled'
  <1> USE DEF TypeOK, Early
  <1>1. ASSUME NEW r \in Runs,
               Manifest(r) \/ Launch(r) \/ Cancel(r) \/ Stop(r) \/ Fail(r) \/ Select(r)
                 \/ End(r) \/ FinalizeFails(r) \/ Crash(r) \/ \E out \in Outputs : Closes(r, out)
        PROVE  phase'[c] \notin Early /\ c \notin cancelled'
        BY <1>1 DEF Manifest, Launch, Cancel, Stop, Fail, Select, End, FinalizeFails, Crash, Closes, Goto, data
  <1>2. ASSUME NEW r \in Runs, NEW p \in Paths,
               Compare(r, p) \/ Backup(r, p) \/ ReadFails(r, p)
                 \/ Replace(r, p) \/ ReplaceFails(r, p) \/ Undo(r, p) \/ UndoFails(r, p)
        PROVE  phase'[c] \notin Early /\ c \notin cancelled'
        BY <1>2 DEF Compare, Backup, ReadFails, Replace, ReplaceFails, Undo, UndoFails, Rollback, Goto, data
  <1>3. ASSUME NEW p \in Paths, NEW x, Edit(p, x)
        PROVE  phase'[c] \notin Early /\ c \notin cancelled'
        BY <1>3 DEF Edit, data
  <1>4. CASE UNCHANGED vars
        BY <1>4 DEF vars
  <1> QED BY <1>1, <1>2, <1>3, <1>4 DEF Next, CodexClose, ClaudeClose

LEMMA StageStep == TypeOK /\ StageInv /\ [Next]_vars => StageInv'
  <1> SUFFICES ASSUME TypeOK, StageInv, [Next]_vars, NEW k \in Runs
               PROVE  /\ phase'[k] \in Early => left'[k] = {} /\ compared'[k] = {}
                      /\ phase'[k] \in Applying \cup {"rollback"} => k \notin cancelled'
      BY DEF StageInv
  <1> DEFINE Goal == /\ phase'[k] \in Early => left'[k] = {} /\ compared'[k] = {}
                     /\ phase'[k] \in Applying \cup {"rollback"} => k \notin cancelled'
  <1> USE DEF TypeOK, StageInv, Early, Applying
  <1>1. ASSUME NEW r \in Runs,
               Manifest(r) \/ Launch(r) \/ Cancel(r) \/ Stop(r) \/ Fail(r)
                 \/ End(r) \/ FinalizeFails(r) \/ Crash(r) \/ \E out \in Outputs : Closes(r, out)
        PROVE  Goal
        BY <1>1 DEF Manifest, Launch, Cancel, Stop, Fail, End, FinalizeFails, Crash, Closes, Goto, data
  <1>2. ASSUME NEW r \in Runs, Select(r) PROVE Goal
    <2>1. r \notin cancelled
          BY <1>2 DEF Select, Passed, CodexPassed
    <2> QED BY <1>2, <2>1 DEF Select, Goto, data
  <1>3. ASSUME NEW r \in Runs, NEW p \in Paths,
               Compare(r, p) \/ Backup(r, p) \/ ReadFails(r, p)
                 \/ Replace(r, p) \/ ReplaceFails(r, p) \/ Undo(r, p) \/ UndoFails(r, p)
        PROVE  Goal
        BY <1>3 DEF Compare, Turn, Backup, ReadFails, Replace, ReplaceFails, Undo,
                     UndoFails, Rollback, ToUndo, Goto, data
  <1>4. ASSUME NEW p \in Paths, NEW x, Edit(p, x) PROVE Goal
        BY <1>4 DEF Edit, data
  <1>5. CASE UNCHANGED vars
        BY <1>5 DEF vars
  <1> QED BY <1>1, <1>2, <1>3, <1>4, <1>5 DEF Next, CodexClose, ClaudeClose

(* Due(k) is settled when the child of k has closed, and only then used.     *)
LEMMA DueStep == TypeOK /\ StageInv /\ DueInv /\ [Next]_vars => DueInv'
  <1> SUFFICES ASSUME TypeOK, StageInv, DueInv, [Next]_vars, NEW k \in Runs
               PROVE  /\ left'[k] \subseteq Due(k)' /\ compared'[k] \subseteq Due(k)'
                      /\ \A p \in Paths : first'[k][p] # copy'[k][p] => copy'[k][p] \in {"none", "link", k}
      BY DEF DueInv
  <1> DEFINE Goal == /\ left'[k] \subseteq Due(k)' /\ compared'[k] \subseteq Due(k)'
                     /\ \A p \in Paths : first'[k][p] # copy'[k][p] => copy'[k][p] \in {"none", "link", k}
  <1> USE DEF TypeOK
  <1>0. /\ left[k] \subseteq Due(k) /\ compared[k] \subseteq Due(k)
        /\ \A p \in Paths : first[k][p] # copy[k][p] => copy[k][p] \in {"none", "link", k}
        BY DEF DueInv
  <1>1. ASSUME UNCHANGED <<copy, first, left, compared>> PROVE Goal
        BY <1>0, <1>1 DEF Due
  <1>2. ASSUME NEW r \in Runs, Launch(r) PROVE Goal
    <2>1. CASE r = k
      <3>1. left[k] = {} /\ compared[k] = {}
            BY <1>2, <2>1 DEF Launch, StageInv, Early
      <3>2. first'[k] = copy'[k]
            BY <1>2, <2>1 DEF Launch
      <3> QED BY <1>2, <3>1, <3>2 DEF Launch
    <2>2. CASE r # k
      <3>1. first'[k] = first[k] /\ copy'[k] = copy[k] /\ UNCHANGED <<left, compared>>
            BY <1>2, <2>2 DEF Launch
      <3> QED BY <1>0, <3>1 DEF Due
    <2> QED BY <2>1, <2>2
  <1>3. ASSUME NEW r \in Runs, NEW out \in Outputs, Closes(r, out) PROVE Goal
    <2>0. PICK made \in [Paths -> {"as it was", "none", "link", r}] :
            copy' = [copy EXCEPT ![r] =
              [p \in Paths |-> IF made[p] = "as it was" THEN copy[r][p] ELSE made[p]]]
          BY <1>3 DEF Closes
    <2>1. CASE r = k
      <3>1. left'[k] = {} /\ compared'[k] = {}
            BY <1>3, <2>1 DEF Closes, StageInv, Early
      <3>2. ASSUME NEW p \in Paths, first'[k][p] # copy'[k][p]
            PROVE  copy'[k][p] \in {"none", "link", k}
        <4>1. copy'[k][p] = IF made[p] = "as it was" THEN copy[k][p] ELSE made[p]
              BY <2>0, <2>1
        <4>2. first'[k][p] = first[k][p]
              BY <1>3 DEF Closes
        <4>3. made[p] \in {"as it was", "none", "link", k}
              BY <2>0, <2>1
        <4> QED BY <1>0, <3>2, <4>1, <4>2, <4>3
      <3> QED BY <3>1, <3>2
    <2>2. CASE r # k
      <3>1. first'[k] = first[k] /\ copy'[k] = copy[k] /\ UNCHANGED <<left, compared>>
            BY <1>3, <2>0, <2>2 DEF Closes
      <3> QED BY <1>0, <3>1 DEF Due
    <2> QED BY <2>1, <2>2
  <1>4. ASSUME NEW r \in Runs, Select(r) PROVE Goal
    <2>1. Candidates(r) \subseteq Due(r)
      <3>1. ASSUME NEW p \in Candidates(r) PROVE p \in Due(r)
        <4>1. /\ p \in Paths /\ first[r][p] # copy[r][p] /\ p \in Allowed[r] \ Forbidden[r]
              /\ copy[r][p] # "link" /\ (copy[r][p] = "none" => r \in Destructive)
              BY DEF Candidates, Eligible, Changed, InBounds
        <4>2. copy[r][p] \in {"none", "link", r}
              BY <4>1 DEF DueInv
        <4> QED BY <4>1, <4>2 DEF Due
      <3> QED BY <3>1
    <2>2. UNCHANGED <<copy, first, compared>>
          BY <1>4 DEF Select, data
    <2>3. left'[k] = left[k] \/ (k = r /\ left'[k] = Candidates(r))
          BY <1>4 DEF Select
    <2> QED BY <1>0, <2>1, <2>2, <2>3 DEF Due
  <1>5. ASSUME NEW r \in Runs, NEW p \in Paths, Compare(r, p) PROVE Goal
    <2>1. UNCHANGED <<copy, first>>
          BY <1>5 DEF Compare, data
    <2>2. p \in left[r]
          BY <1>5 DEF Compare, Turn, First
    <2>3. /\ left'[k] \subseteq left[k] \cup compared[k]
          /\ compared'[k] \subseteq compared[k] \cup left[k]
          BY <1>5, <2>2 DEF Compare, Rollback, ToUndo
    <2> QED BY <1>0, <2>1, <2>3 DEF Due
  <1>6. ASSUME NEW r \in Runs, NEW p \in Paths,
               \/ Backup(r, p) \/ ReadFails(r, p)
               \/ Replace(r, p) \/ ReplaceFails(r, p) \/ Undo(r, p) \/ UndoFails(r, p)
        PROVE  Goal
    <2>1. UNCHANGED <<copy, first>>
          BY <1>6 DEF Backup, ReadFails, Replace, ReplaceFails, Undo, UndoFails, data
    <2>2. left'[k] \subseteq left[k] \cup compared[k] /\ compared' = compared
          BY <1>6 DEF Backup, ReadFails, Replace, ReplaceFails, Undo, UndoFails, Rollback, ToUndo
    <2> QED BY <1>0, <2>1, <2>2 DEF Due
  <1>7. ASSUME NEW r \in Runs,
               Manifest(r) \/ Cancel(r) \/ Stop(r) \/ Fail(r) \/ End(r) \/ FinalizeFails(r) \/ Crash(r)
        PROVE  Goal
    <2>1. UNCHANGED <<copy, first, left, compared>>
          BY <1>7 DEF Manifest, Cancel, Stop, Fail, End, FinalizeFails, Crash, data
    <2> QED BY <1>1, <2>1
  <1>8. ASSUME NEW p \in Paths, NEW x, Edit(p, x) PROVE Goal
    <2>1. UNCHANGED <<copy, first, left, compared>>
          BY <1>8 DEF Edit, data
    <2> QED BY <1>1, <2>1
  <1>9. CASE UNCHANGED vars
    <2>1. UNCHANGED <<copy, first, left, compared>>
          BY <1>9 DEF vars, data
    <2> QED BY <1>1, <2>1
  <1> QED BY <1>2, <1>3, <1>4, <1>5, <1>6, <1>7, <1>8, <1>9 DEF Next, CodexClose, ClaudeClose

(* Legit contents stay legit, and a run writes only its own or a backup.     *)
LEMMA LegitStep == ScopeInv /\ [Next]_vars => LegitInv'
  <1> SUFFICES ASSUME ScopeInv, [Next]_vars PROVE LegitInv'
      OBVIOUS
  <1>0. TypeOK /\ StageInv /\ DueInv /\ LegitInv
        BY DEF ScopeInv
  <1>1. ASSUME NEW q \in Paths, NEW c, c \in Runs, Legit(c, q)
        PROVE  q \in Allowed[c] \ Forbidden[c] /\ phase'[c] \notin Early /\ c \notin cancelled'
        BY <1>0, <1>1, PassedStay DEF Legit
  <1>2. ASSUME NEW q \in Paths,
               source'[q] \in Runs => Legit(source'[q], q),
               \A k \in Runs : backups'[k][q] \in Runs => Legit(backups'[k][q], q)
        PROVE  Legit(source[q], q)' /\ \A k \in Runs : Legit(backups[k][q], q)'
        BY <1>1, <1>2 DEF Legit
  <1> DEFINE Kept(q) == source'[q] = source[q] /\ \A k \in Runs : backups'[k][q] = backups[k][q]
             Fine(q) == /\ source'[q] \in Runs => Legit(source'[q], q)
                        /\ \A k \in Runs : backups'[k][q] \in Runs => Legit(backups'[k][q], q)
  <1>3. ASSUME NEW q \in Paths, Kept(q) PROVE Fine(q)
        BY <1>0, <1>3 DEF LegitInv
  <1>4. ASSUME NEW p \in Paths, NEW c, NEW by, Write(p, c, by), backups' = backups,
               c \in Runs => Legit(c, p)
        PROVE  \A q \in Paths : Fine(q)
    <2>1. \A q \in Paths : source'[q] = IF q = p THEN c ELSE source[q]
          BY <1>0, <1>4 DEF Write, TypeOK, Trees
    <2>2. \A q \in Paths \ {p} : Fine(q)
          BY <1>3, <1>4, <2>1
    <2>3. Fine(p)
          BY <1>0, <1>4, <2>1 DEF LegitInv
    <2> QED BY <2>2, <2>3
  <1>5. ASSUME UNCHANGED <<source, backups>> PROVE \A q \in Paths : Fine(q)
        BY <1>3, <1>5
  <1>9. ASSUME NEW r \in Runs, NEW p \in Paths, NEW c, backups' = backups,
               UNCHANGED <<source, late>> \/ FailedWrite(r, p, c), c \in Runs => Legit(c, p)
        PROVE  \A q \in Paths : Fine(q)
    <2>1. CASE UNCHANGED <<source, late>>
          BY <1>5, <1>9, <2>1
    <2>2. CASE Write(p, "none", r)
          BY <1>4, <1>9, <2>2, ExecutorRunAssumption
    <2>3. CASE Write(p, c, r)
          BY <1>4, <1>9, <2>3
    <2> QED BY <1>9, <2>1, <2>2, <2>3 DEF FailedWrite
  <1>6. \A q \in Paths : Fine(q)
    <2>1. ASSUME NEW r \in Runs,
                 Manifest(r) \/ Launch(r) \/ Cancel(r) \/ Stop(r) \/ Fail(r) \/ Select(r)
                   \/ End(r) \/ FinalizeFails(r) \/ Crash(r) \/ \E out \in Outputs : Closes(r, out)
          PROVE  \A q \in Paths : Fine(q)
      <3>1. UNCHANGED <<source, backups>>
            BY <2>1 DEF Manifest, Launch, Cancel, Stop, Fail, Select, End, FinalizeFails, Crash, Closes
      <3> QED BY <1>5, <3>1
    <2>2. ASSUME NEW r \in Runs, NEW p \in Paths, Compare(r, p) \/ ReadFails(r, p)
          PROVE  \A q \in Paths : Fine(q)
      <3>1. UNCHANGED <<source, backups>>
            BY <2>2 DEF Compare, ReadFails
      <3> QED BY <1>5, <3>1
    <2>3. ASSUME NEW r \in Runs, NEW p \in Paths, Backup(r, p) PROVE \A q \in Paths : Fine(q)
      <3>1. source' = source
            BY <2>3 DEF Backup
      <3>2. PICK c \in Read(p) : backups' = [backups EXCEPT ![r][p] = c]
            BY <2>3 DEF Backup
      <3>3. \A k \in Runs, q \in Paths :
              backups'[k][q] = IF k = r /\ q = p THEN c ELSE backups[k][q]
            BY <1>0, <3>2 DEF TypeOK, Trees
      <3>4. c \in Runs => Legit(c, p)
        <4>1. c = source[p] \/ c \in {"user", "none"}
              BY <3>2 DEF Read
        <4> QED BY <1>0, <4>1, ExecutorRunAssumption DEF LegitInv
      <3> QED BY <1>0, <3>1, <3>3, <3>4 DEF LegitInv
    <2>4. ASSUME NEW r \in Runs, NEW p \in Paths, Replace(r, p) PROVE \A q \in Paths : Fine(q)
      <3>1. Write(p, copy[r][p], r) /\ backups' = backups /\ p \in left[r] /\ phase[r] = "saved"
            BY <2>4 DEF Replace, First
      <3>2. p \in Due(r) /\ r \notin cancelled
            BY <1>0, <3>1 DEF DueInv, StageInv, Applying
      <3>3. copy[r][p] \in Runs => Legit(copy[r][p], p)
            BY <3>1, <3>2, ExecutorRunAssumption DEF Due, Legit, Early
      <3> QED BY <1>4, <3>1, <3>3
    <2>5. ASSUME NEW r \in Runs, NEW p \in Paths, ReplaceFails(r, p) PROVE \A q \in Paths : Fine(q)
      <3>1. /\ backups' = backups /\ p \in left[r] /\ phase[r] = "saved"
            /\ UNCHANGED <<source, late>> \/ FailedWrite(r, p, copy[r][p])
            BY <2>5 DEF ReplaceFails, First
      <3>2. p \in Due(r) /\ r \notin cancelled
            BY <1>0, <3>1 DEF DueInv, StageInv, Applying
      <3>3. copy[r][p] \in Runs => Legit(copy[r][p], p)
            BY <3>1, <3>2, ExecutorRunAssumption DEF Due, Legit, Early
      <3> QED BY <1>9, <3>1, <3>3
    <2>6. ASSUME NEW r \in Runs, NEW p \in Paths, Undo(r, p) PROVE \A q \in Paths : Fine(q)
      <3>1. backups' = backups
            BY <2>6 DEF Undo
      <3>2. CASE Safe(p)
        <4>1. Write(p, backups[r][p], r)
              BY <2>6, <3>2 DEF Undo
        <4>2. backups[r][p] \in Runs => Legit(backups[r][p], p)
              BY <1>0 DEF LegitInv
        <4> QED BY <1>4, <3>1, <4>1, <4>2
      <3>3. CASE ~Safe(p)
        <4>1. source' = source
              BY <2>6, <3>3 DEF Undo
        <4> QED BY <1>5, <3>1, <4>1
      <3> QED BY <3>2, <3>3
    <2>9. ASSUME NEW r \in Runs, NEW p \in Paths, UndoFails(r, p) PROVE \A q \in Paths : Fine(q)
      <3>1. backups' = backups /\ FailedWrite(r, p, backups[r][p])
            BY <2>9 DEF UndoFails
      <3>2. backups[r][p] \in Runs => Legit(backups[r][p], p)
            BY <1>0 DEF LegitInv
      <3> QED BY <1>9, <3>1, <3>2
    <2>7. ASSUME NEW p \in Paths, NEW c \in {"user", "none", "link"}, Edit(p, c)
          PROVE  \A q \in Paths : Fine(q)
      <3>1. Write(p, c, "user") /\ backups' = backups
            BY <2>7 DEF Edit
      <3>2. c \notin Runs
            BY <2>7, ExecutorRunAssumption
      <3> QED BY <1>4, <3>1, <3>2
    <2>8. CASE UNCHANGED vars
      <3>1. UNCHANGED <<source, backups>>
            BY <2>8 DEF vars
      <3> QED BY <1>5, <3>1
    <2> QED BY <2>1, <2>2, <2>3, <2>4, <2>5, <2>6, <2>7, <2>8, <2>9 DEF Next, CodexClose, ClaudeClose
  <1> QED BY <1>2, <1>6 DEF LegitInv

LEMMA ScopeAlways == Spec => []ScopeInv
  <1>1. Init => ScopeInv
        BY ScopeInit
  <1>2. ScopeInv /\ [Next]_vars => ScopeInv'
        BY TypeStep, StageStep, DueStep, LegitStep DEF ScopeInv
  <1> QED BY <1>1, <1>2, PTL DEF Spec

(* Trees, copies, backups and what each run has in hand have their types.    *)
THEOREM RunsTypeCorrect == Spec => []TypeOK
  <1>1. ScopeInv => TypeOK
        BY DEF ScopeInv
  <1> QED BY <1>1, ScopeAlways, PTL

(* Whatever runs, edits, failures and crashes interleave, the source holds    *)
(* the work only of runs that passed, and only in their scope.                *)
THEOREM DueWorkOnly == Spec => []OnlyDueWork
  <1>1. ScopeInv => ScopeKept
    <2> SUFFICES ASSUME ScopeInv PROVE ScopeKept
        OBVIOUS
    <2>1. ASSUME NEW r \in Runs, NEW p \in Paths, source[p] = r PROVE p \in Allowed[r] \ Forbidden[r]
          BY <2>1 DEF ScopeInv, LegitInv, Legit
    <2>2. ASSUME NEW r \in Runs, NEW p \in compared[r]
          PROVE  p \in Allowed[r] \ Forbidden[r] /\ (copy[r][p] = "none" => r \in Destructive)
      <3>1. p \in Due(r)
            BY DEF ScopeInv, DueInv
      <3> QED BY <3>1, ExecutorRunAssumption DEF Due
    <2> QED BY <2>1, <2>2 DEF ScopeKept
  <1>2. ScopeInv => OnlyPassedWork
        BY DEF ScopeInv, LegitInv, Legit, OnlyPassedWork, Early
  <1> QED BY <1>1, <1>2, ScopeAlways, PTL DEF OnlyDueWork

-----------------------------------------------------------------------------
(* All or nothing.                                                           *)

\* Of the files r has compared, one at most is still to be applied, the first.
Hand(r) ==
  /\ phase[r] = "next" => compared[r] \cap left[r] = {}
  /\ phase[r] \in {"compared", "saved"} =>
       \A p \in Paths : p \in compared[r] \cap left[r] <=> First(p, left[r])
  /\ phase[r] = "rollback" => left[r] \subseteq compared[r]

\* What r knows of a file it compared and nobody else wrote since.
Known(r, p) ==
  /\ base[r][p] # "link"
  /\ phase[r] \in Applying => source[p] = IF p \in left[r] THEN base[r][p] ELSE copy[r][p]
  /\ phase[r] \in Applying \cup {"rollback"} =>
       \/ backups[r][p] = base[r][p]
       \/ (p \in left[r] /\ phase[r] = "compared") \/ (p \notin left[r] /\ phase[r] = "rollback")
  /\ phase[r] \in {"rollback", "torn"} =>
       /\ source[p] \in {base[r][p], copy[r][p], "none"}
       /\ p \notin left[r] => source[p] = base[r][p]
  /\ phase[r] \in {"passed", "kept"} => source[p] = copy[r][p]
  /\ phase[r] = "threw" => source[p] = base[r][p]

KnownInv == \A r \in Runs : Hand(r) /\ \A p \in compared[r] \ late[r] : Known(r, p)

(* A step of somebody else: it takes what it writes out of compared \ late.  *)
LEMMA Untouched ==
  ASSUME TypeOK, NEW k \in Runs, Hand(k), \A p \in compared[k] \ late[k] : Known(k, p),
         phase'[k] = phase[k], left'[k] = left[k], compared'[k] = compared[k],
         base'[k] = base[k], copy'[k] = copy[k], backups'[k] = backups[k],
         late[k] \subseteq late'[k],
         \A p \in compared[k] \ late'[k] : source'[p] = source[p]
  PROVE  Hand(k)' /\ \A p \in compared'[k] \ late'[k] : Known(k, p)'
  <1>1. Hand(k)'
        BY DEF Hand, First
  <1>2. ASSUME NEW p \in compared'[k] \ late'[k] PROVE Known(k, p)'
    <2>1. Known(k, p) /\ source'[p] = source[p]
          OBVIOUS
    <2> QED BY <2>1 DEF Known
  <1> QED BY <1>1, <1>2

(* A write of somebody else, or of k at p.                                   *)
LEMMA WriteSeen ==
  ASSUME TypeOK, NEW p \in Paths, NEW c, NEW by, Write(p, c, by), NEW k \in Runs
  PROVE  /\ \A q \in Paths : source'[q] = IF q = p THEN c ELSE source[q]
         /\ late[k] \subseteq late'[k]
         /\ k = by => late'[k] = late[k]
         /\ k # by => \A q \in compared[k] \ late'[k] : source'[q] = source[q]
  <1>1. \A q \in Paths : source'[q] = IF q = p THEN c ELSE source[q]
        BY DEF Write, TypeOK, Trees
  <1>2. late'[k] = IF k # by /\ p \in compared[k] THEN late[k] \cup {p} ELSE late[k]
        BY DEF Write
  <1>3. compared[k] \subseteq Paths
        BY DEF TypeOK
  <1> QED BY <1>1, <1>2, <1>3

LEMMA KnownInit == Init => KnownInv
  BY DEF Init, KnownInv, Hand

LEMMA KnownStep == ScopeInv /\ KnownInv /\ [Next]_vars => KnownInv'
  <1> SUFFICES ASSUME ScopeInv, KnownInv, [Next]_vars, NEW k \in Runs
               PROVE  Hand(k)' /\ \A q \in compared'[k] \ late'[k] : Known(k, q)'
      BY DEF KnownInv
  <1> DEFINE Goal == Hand(k)' /\ \A q \in compared'[k] \ late'[k] : Known(k, q)'
  <1>0. /\ TypeOK /\ StageInv /\ DueInv
        /\ Hand(k) /\ \A q \in compared[k] \ late[k] : Known(k, q)
        /\ late[k] \subseteq compared[k] /\ compared[k] \subseteq Paths /\ left[k] \subseteq Paths
        BY DEF ScopeInv, KnownInv, TypeOK
  <1>1. ASSUME NEW r \in Runs, r # k,
               Manifest(r) \/ Launch(r) \/ Cancel(r) \/ Stop(r) \/ Fail(r) \/ Select(r)
                 \/ End(r) \/ FinalizeFails(r) \/ Crash(r) \/ \E out \in Outputs : Closes(r, out)
        PROVE  Goal
    <2>1. /\ phase'[k] = phase[k] /\ left'[k] = left[k] /\ compared'[k] = compared[k]
          /\ base'[k] = base[k] /\ copy'[k] = copy[k] /\ backups'[k] = backups[k]
          /\ late' = late /\ source' = source
          BY <1>0, <1>1 DEF TypeOK, Manifest, Launch, Cancel, Stop, Fail, Select, End, FinalizeFails, Crash,
                            Closes, Goto, data
    <2> QED BY <1>0, <2>1, Untouched
  <1>2. ASSUME NEW r \in Runs, r # k, NEW p \in Paths,
               Compare(r, p) \/ Backup(r, p) \/ ReadFails(r, p)
        PROVE  Goal
    <2>1. /\ phase'[k] = phase[k] /\ left'[k] = left[k] /\ compared'[k] = compared[k]
          /\ base'[k] = base[k] /\ copy'[k] = copy[k] /\ backups'[k] = backups[k]
          /\ late' = late /\ source' = source
          BY <1>0, <1>2 DEF TypeOK, Compare, Backup, ReadFails, Rollback, Goto, data
    <2> QED BY <1>0, <2>1, Untouched
  <1>3. ASSUME NEW r \in Runs, r # k, NEW p \in Paths,
               Replace(r, p) \/ ReplaceFails(r, p) \/ Undo(r, p) \/ UndoFails(r, p)
        PROVE  Goal
    <2>1. /\ phase'[k] = phase[k] /\ left'[k] = left[k] /\ compared'[k] = compared[k]
          /\ base'[k] = base[k] /\ copy'[k] = copy[k] /\ backups'[k] = backups[k]
          BY <1>0, <1>3 DEF TypeOK, Replace, ReplaceFails, Undo, UndoFails, Rollback, Goto, data
    <2>2. UNCHANGED <<source, late>> \/ \E c : Write(p, c, r)
          BY <1>3 DEF Replace, ReplaceFails, Undo, UndoFails, FailedWrite
    <2>3. /\ late[k] \subseteq late'[k]
          /\ \A q \in compared[k] \ late'[k] : source'[q] = source[q]
          BY <1>0, <1>3, <2>2, WriteSeen
    <2> QED BY <1>0, <2>1, <2>3, Untouched
  <1>4. ASSUME NEW p \in Paths, NEW c \in {"user", "none", "link"}, Edit(p, c) PROVE Goal
    <2>1. /\ phase' = phase /\ left' = left /\ compared' = compared
          /\ base' = base /\ copy' = copy /\ backups' = backups
          BY <1>4 DEF Edit, data
    <2>2. Write(p, c, "user") /\ k # "user"
          BY <1>4, ExecutorRunAssumption DEF Edit
    <2>3. /\ late[k] \subseteq late'[k]
          /\ \A q \in compared[k] \ late'[k] : source'[q] = source[q]
          BY <1>0, <2>2, WriteSeen
    <2> QED BY <1>0, <2>1, <2>3, Untouched
  <1>5. CASE UNCHANGED vars
        BY <1>0, <1>5, Untouched DEF vars, data
  <1>6. ASSUME Manifest(k) \/ Launch(k) \/ Stop(k) \/ Fail(k) \/ Select(k)
                 \/ \E out \in Outputs : Closes(k, out)
        PROVE  Goal
    <2>1. compared'[k] = {}
          BY <1>0, <1>6 DEF StageInv, Early, Manifest, Launch, Stop, Fail, Select, Closes
    <2>2. phase'[k] \in {"listed", "running", "stopped", "failed", "closed", "threw", "next"}
          BY <1>0, <1>6 DEF TypeOK, Manifest, Launch, Stop, Fail, Select, Closes, Goto
    <2> QED BY <2>1, <2>2 DEF Hand
  <1>7. ASSUME Cancel(k) PROVE Goal
    <2>1. /\ phase' = phase /\ left' = left /\ compared' = compared
          /\ base' = base /\ copy' = copy /\ backups' = backups /\ late' = late /\ source' = source
          BY <1>7 DEF Cancel, data
    <2> QED BY <1>0, <2>1, Untouched
  <1>8. ASSUME Crash(k) PROVE Goal
    <2>1. /\ phase'[k] = "dead" /\ base' = base /\ late' = late /\ compared' = compared
          BY <1>0, <1>8 DEF TypeOK, Crash, Goto, data
    <2>2. \A q \in compared[k] \ late[k] : base[k][q] # "link"
          BY <1>0 DEF Known
    <2> QED BY <2>1, <2>2 DEF Hand, Known, Applying
  <1>17. ASSUME FinalizeFails(k) PROVE Goal
    <2>1. /\ left' = left /\ base' = base /\ copy' = copy /\ late' = late /\ source' = source
          /\ compared' = compared
          BY <1>17 DEF FinalizeFails, data
    <2>2. CASE phase[k] = "closed"
      <3>1. compared'[k] = {} /\ phase'[k] = "threw"
            BY <1>0, <1>17, <2>1, <2>2 DEF TypeOK, FinalizeFails, Goto, StageInv, Early
      <3> QED BY <3>1 DEF Hand
    <2>3. CASE phase[k] = "next" /\ left[k] = {}
      <3>1. phase'[k] = "kept"
            BY <1>0, <1>17, <2>3 DEF TypeOK, FinalizeFails, Goto
      <3> QED BY <1>0, <2>1, <2>3, <3>1 DEF Hand, Known, Applying
    <2> QED BY <1>17, <2>2, <2>3 DEF FinalizeFails
  <1>9. ASSUME End(k) PROVE Goal
    <2>1. /\ left[k] = {} /\ base' = base /\ copy' = copy /\ late' = late /\ source' = source
          /\ compared' = compared
          BY <1>9 DEF End, data
    <2>2. \/ phase[k] = "next" /\ phase'[k] = "passed"
          \/ phase[k] = "rollback" /\ phase'[k] = "threw"
          BY <1>0, <1>9 DEF TypeOK, End, Goto
    <2> QED BY <1>0, <2>1, <2>2 DEF Hand, Known, Applying
  <1>10. ASSUME NEW p \in Paths, Compare(k, p) PROVE Goal
    <2>0. /\ phase[k] = "next" /\ First(p, left[k]) /\ compared[k] \cap left[k] = {}
          /\ base' = base /\ copy' = copy /\ late' = late /\ source' = source /\ backups' = backups
          BY <1>0, <1>10 DEF Compare, Turn, Hand, data
    <2>1. CASE StillBase(k, p)
      <3>1. /\ phase'[k] = "compared" /\ compared'[k] = compared[k] \cup {p} /\ left' = left
            BY <1>0, <1>10, <2>1 DEF TypeOK, Compare, Goto
      <3>2. Hand(k)'
        <4>1. ASSUME NEW q \in Paths PROVE q \in compared'[k] \cap left'[k] <=> First(q, left'[k])
              BY <1>0, <2>0, <3>1 DEF First, Paths
        <4> QED BY <3>1, <4>1 DEF Hand, First
      <3>3. ASSUME NEW q \in compared[k] \ late[k] PROVE Known(k, q)'
        <4>1. Known(k, q) /\ q \notin left[k]
              BY <1>0, <2>0
        <4> QED BY <2>0, <3>1, <4>1 DEF Known, Applying
      <3>4. Known(k, p)'
            BY <2>0, <2>1, <3>1 DEF Known, Applying, StillBase, Safe, First
      <3> QED BY <2>0, <3>1, <3>2, <3>3, <3>4
    <2>2. CASE ~StillBase(k, p)
      <3>1. phase'[k] = "rollback" /\ compared' = compared /\ left'[k] = compared[k]
            BY <1>0, <1>10, <2>2 DEF TypeOK, Compare, Rollback, ToUndo, Goto
      <3>2. ASSUME NEW q \in compared[k] \ late[k] PROVE Known(k, q)'
        <4>1. Known(k, q) /\ q \notin left[k]
              BY <1>0, <2>0
        <4> QED BY <2>0, <3>1, <4>1 DEF Known, Applying
      <3> QED BY <2>0, <3>1, <3>2 DEF Hand
    <2> QED BY <2>1, <2>2
  <1>11. ASSUME NEW p \in Paths, Backup(k, p) PROVE Goal
    <2>1. /\ phase[k] = "compared" /\ First(p, left[k]) /\ phase'[k] = "saved"
          /\ base' = base /\ copy' = copy /\ late' = late /\ source' = source
          /\ left' = left /\ compared' = compared
          BY <1>0, <1>11 DEF TypeOK, Backup, Goto, data
    <2>5. PICK c \in Read(p) : backups' = [backups EXCEPT ![k][p] = c]
          BY <1>11 DEF Backup
    <2>2. \A q \in Paths : backups'[k][q] = IF q = p THEN c ELSE backups[k][q]
          BY <1>0, <2>5 DEF TypeOK, Trees
    <2>3. Hand(k)'
          BY <1>0, <2>1 DEF Hand, First
    <2>4. ASSUME NEW q \in compared[k] \ late[k] PROVE Known(k, q)'
      <3>1. Known(k, q) /\ q \in Paths
            BY <1>0
      <3>2. p \in left[k]
            BY <2>1 DEF First
      <3>3. CASE q = p
        <4>1. source[p] = base[k][p] /\ source[p] # "link"
              BY <2>1, <3>1, <3>2, <3>3 DEF Known, Applying
        <4>2. c = base[k][p]
              BY <2>5, <4>1 DEF Read, Safe
        <4> QED BY <2>1, <2>2, <3>1, <3>2, <3>3, <4>2 DEF Known, Applying
      <3>4. CASE q # p
        <4>1. q \notin left[k]
              BY <1>0, <2>1, <3>1, <3>4 DEF Hand, First, Paths
        <4> QED BY <2>1, <2>2, <3>1, <3>4, <4>1 DEF Known, Applying
      <3> QED BY <3>3, <3>4
    <2> QED BY <2>1, <2>3, <2>4
  <1>12. ASSUME NEW p \in Paths, Replace(k, p) PROVE Goal
    <2>1. /\ phase[k] = "saved" /\ First(p, left[k]) /\ phase'[k] = "next"
          /\ base' = base /\ copy' = copy /\ backups' = backups /\ compared' = compared
          /\ left'[k] = left[k] \ {p} /\ Write(p, copy[k][p], k)
          BY <1>0, <1>12 DEF TypeOK, Replace, Goto, data
    <2>2. /\ \A q \in Paths : source'[q] = IF q = p THEN copy[k][p] ELSE source[q]
          /\ late'[k] = late[k]
          BY <1>0, <2>1, WriteSeen
    <2>3. \A q \in compared[k] \cap left[k] : q = p
          BY <1>0, <2>1 DEF Hand, First, Paths
    <2>4. Hand(k)'
          BY <2>1, <2>3 DEF Hand
    <2>5. ASSUME NEW q \in compared[k] \ late[k] PROVE Known(k, q)'
      <3>1. Known(k, q) /\ q \in Paths
            BY <1>0
      <3>2. q = p \/ q \notin left[k]
            BY <2>3
      <3> QED BY <2>1, <2>2, <3>1, <3>2 DEF Known, Applying
    <2> QED BY <2>1, <2>2, <2>4, <2>5
  <1>13. ASSUME NEW p \in Paths, ReplaceFails(k, p) PROVE Goal
    <2>1. /\ phase[k] = "saved" /\ phase'[k] = "rollback"
          /\ base' = base /\ copy' = copy /\ backups' = backups /\ compared' = compared
          /\ left'[k] = compared[k]
          BY <1>0, <1>13 DEF TypeOK, ReplaceFails, Rollback, ToUndo, Goto, data
    <2>2. /\ \A q \in Paths : source'[q] \in {source[q], copy[k][q], "none"}
          /\ late'[k] = late[k]
      <3>1. UNCHANGED <<source, late>> \/ Write(p, "none", k) \/ Write(p, copy[k][p], k)
            BY <1>13 DEF ReplaceFails, FailedWrite
      <3> QED BY <1>0, <3>1, WriteSeen
    <2>3. ASSUME NEW q \in compared[k] \ late[k] PROVE Known(k, q)'
      <3>1. Known(k, q) /\ q \in Paths
            BY <1>0
      <3> QED BY <2>1, <2>2, <3>1 DEF Known, Applying
    <2> QED BY <2>1, <2>2, <2>3 DEF Hand
  <1>18. ASSUME NEW p \in Paths, ReadFails(k, p) PROVE Goal
    <2>1. /\ phase[k] \in {"next", "compared"} /\ First(p, left[k]) /\ phase'[k] = "rollback"
          /\ base' = base /\ copy' = copy /\ backups' = backups /\ compared' = compared
          /\ late' = late /\ source' = source /\ left'[k] = compared[k] \ {p}
          BY <1>0, <1>18 DEF TypeOK, ReadFails, ToUndo, Goto, data
    <2>2. Hand(k)'
          BY <2>1 DEF Hand
    <2>3. ASSUME NEW q \in compared[k] \ late[k] PROVE Known(k, q)'
      <3>1. Known(k, q) /\ q \in Paths
            BY <1>0
      <3>2. CASE q = p
        <4>1. source[q] = base[k][q] /\ base[k][q] # "link"
              BY <2>1, <3>1, <3>2 DEF Known, Applying, First
        <4> QED BY <2>1, <3>2, <4>1 DEF Known, Applying
      <3>3. CASE q # p
        <4>1. q \notin left[k]
              BY <1>0, <2>1, <3>1, <3>3 DEF Hand, First, Paths
        <4> QED BY <2>1, <3>1, <3>3, <4>1 DEF Known, Applying
      <3> QED BY <3>2, <3>3
    <2> QED BY <2>1, <2>2, <2>3
  <1>19. ASSUME NEW p \in Paths, UndoFails(k, p) PROVE Goal
    <2>1. /\ phase[k] = "rollback" /\ First(p, left[k]) /\ phase'[k] = "torn"
          /\ base' = base /\ copy' = copy /\ backups' = backups /\ compared' = compared
          /\ left' = left
          BY <1>0, <1>19 DEF TypeOK, UndoFails, Goto, data
    <2>2. p \in left[k]
          BY <2>1 DEF First
    <2>3. /\ \A q \in Paths : source'[q] = source[q] \/ (q = p /\ source'[q] \in {backups[k][q], "none"})
          /\ late'[k] = late[k]
      <3>1. UNCHANGED <<source, late>> \/ Write(p, "none", k) \/ Write(p, backups[k][p], k)
            BY <1>19 DEF UndoFails, FailedWrite
      <3> QED BY <1>0, <3>1, WriteSeen
    <2>4. ASSUME NEW q \in compared[k] \ late[k] PROVE Known(k, q)'
      <3>1. Known(k, q) /\ q \in Paths
            BY <1>0
      <3> QED BY <2>1, <2>2, <2>3, <3>1 DEF Known, Applying
    <2> QED BY <2>1, <2>3, <2>4 DEF Hand
  <1>14. ASSUME NEW p \in Paths, Undo(k, p) PROVE Goal
    <2>1. /\ phase[k] = "rollback" /\ First(p, left[k]) /\ phase' = phase
          /\ base' = base /\ copy' = copy /\ backups' = backups /\ compared' = compared
          /\ left'[k] = left[k] \ {p}
          BY <1>0, <1>14 DEF TypeOK, Undo, data
    <2>2. p \in left[k] /\ p \in compared[k] /\ p \in Due(k) /\ Hand(k)'
          BY <1>0, <2>1 DEF Hand, First, DueInv
    <2>3. CASE Safe(p)
      <3>1. Write(p, backups[k][p], k)
            BY <1>14, <2>3 DEF Undo
      <3>2. /\ \A q \in Paths : source'[q] = IF q = p THEN backups[k][p] ELSE source[q]
            /\ late'[k] = late[k]
            BY <1>0, <3>1, WriteSeen
      <3>3. ASSUME NEW q \in compared[k] \ late[k] PROVE Known(k, q)'
        <4>1. Known(k, q) /\ q \in Paths
              BY <1>0
        <4> QED BY <2>1, <2>2, <3>2, <4>1 DEF Known, Applying
      <3> QED BY <2>1, <2>2, <3>2, <3>3
    <2>4. CASE ~Safe(p)
      <3>1. source' = source /\ late' = late
            BY <1>14, <2>4 DEF Undo
      <3>2. source[p] = "link" /\ copy[k][p] # "link"
            BY <2>2, <2>4, ExecutorRunAssumption DEF Safe, Due
      <3>3. p \in late[k]
            BY <1>0, <2>1, <2>2, <3>2 DEF Known
      <3>4. ASSUME NEW q \in compared[k] \ late[k] PROVE Known(k, q)'
        <4>1. Known(k, q) /\ q # p
              BY <1>0, <3>3
        <4> QED BY <2>1, <3>1, <4>1 DEF Known, Applying
      <3> QED BY <2>1, <2>2, <3>1, <3>4
    <2> QED BY <2>3, <2>4
  <1>15. ASSUME NEW r \in Runs,
                Manifest(r) \/ Launch(r) \/ Cancel(r) \/ Stop(r) \/ Fail(r) \/ Select(r)
                  \/ End(r) \/ FinalizeFails(r) \/ Crash(r) \/ \E out \in Outputs : Closes(r, out)
         PROVE  Goal
         BY <1>1, <1>6, <1>7, <1>8, <1>9, <1>15, <1>17
  <1>16. ASSUME NEW r \in Runs, NEW p \in Paths,
                Compare(r, p) \/ Backup(r, p) \/ ReadFails(r, p)
                  \/ Replace(r, p) \/ ReplaceFails(r, p) \/ Undo(r, p) \/ UndoFails(r, p)
         PROVE  Goal
         BY <1>2, <1>3, <1>10, <1>11, <1>12, <1>13, <1>14, <1>16, <1>18, <1>19
  <1> QED BY <1>4, <1>5, <1>15, <1>16 DEF Next, CodexClose, ClaudeClose

LEMMA KnownAlways == Spec => [](ScopeInv /\ KnownInv)
  <1>1. Init => ScopeInv /\ KnownInv
        BY ScopeInit, KnownInit
  <1>2. ScopeInv /\ KnownInv /\ [Next]_vars => ScopeInv' /\ KnownInv'
        BY TypeStep, StageStep, DueStep, LegitStep, KnownStep DEF ScopeInv
  <1> QED BY <1>1, <1>2, PTL DEF Spec

(* finalize is all or nothing: a run that passed has brought back, and one    *)
(* that threw has put back, every file that nobody else wrote meanwhile.      *)
THEOREM FinalizeAllOrNothing == Spec => []AllOrNothing
  <1>1. ScopeInv /\ KnownInv => AllOrNothing
        BY DEF KnownInv, Known, AllOrNothing
  <1> QED BY <1>1, KnownAlways, PTL

(* No run overwrites a change that was there to be seen when it compared.     *)
THEOREM ForeignChangesKept == Spec => ChangesKept
  <1> DEFINE Moved(k, q) == source'[q] # source[q] /\ <<phase'[k], left'[k]>> # <<phase[k], left[k]>>
             Seen(k, q) == /\ q \in compared[k]
                           /\ q \in late[k] \/ source[q] \in {base[k][q], copy[k][q], "none"}
  <1>1. ASSUME ScopeInv, KnownInv, [Next]_vars, NEW k \in Runs, NEW q \in Paths, Moved(k, q)
        PROVE  Seen(k, q)
    <2>0. TypeOK /\ Hand(k) /\ \A p \in compared[k] \ late[k] : Known(k, p)
          BY <1>1 DEF ScopeInv, KnownInv
    <2>1. ASSUME NEW r \in Runs,
                 Manifest(r) \/ Launch(r) \/ Cancel(r) \/ Stop(r) \/ Fail(r) \/ Select(r)
                   \/ End(r) \/ FinalizeFails(r) \/ Crash(r) \/ \E out \in Outputs : Closes(r, out)
          PROVE  FALSE
      <3>1. source' = source
            BY <2>1 DEF Manifest, Launch, Cancel, Stop, Fail, Select, End, FinalizeFails, Crash, Closes
      <3> QED BY <1>1, <3>1
    <2>2. ASSUME NEW r \in Runs, NEW p \in Paths, Compare(r, p) \/ Backup(r, p) \/ ReadFails(r, p)
          PROVE  FALSE
      <3>1. source' = source
            BY <2>2 DEF Compare, Backup, ReadFails
      <3> QED BY <1>1, <3>1
    <2>3. ASSUME NEW p \in Paths, NEW c, Edit(p, c) PROVE FALSE
      <3>1. phase' = phase /\ left' = left
            BY <2>3 DEF Edit
      <3> QED BY <1>1, <3>1
    <2>4. CASE UNCHANGED vars
      <3>1. source' = source
            BY <2>4 DEF vars
      <3> QED BY <1>1, <3>1
    <2>5. ASSUME NEW r \in Runs, NEW p \in Paths,
                 Replace(r, p) \/ ReplaceFails(r, p) \/ Undo(r, p) \/ UndoFails(r, p)
          PROVE  Seen(k, q)
      <3>1. r = k
        <4>1. r # k => phase'[k] = phase[k] /\ left'[k] = left[k]
              BY <2>0, <2>5 DEF TypeOK, Replace, ReplaceFails, Undo, UndoFails, Rollback, Goto
        <4> QED BY <1>1, <4>1
      <3>2. q = p
        <4>1. source' = source \/ \E c : Write(p, c, r)
              BY <2>5 DEF Replace, ReplaceFails, Undo, UndoFails, FailedWrite
        <4> QED BY <1>1, <2>0, <4>1, WriteSeen
      <3>3. /\ phase[k] \in {"saved", "rollback"}
            /\ p \in left[k] /\ First(p, left[k])
            BY <2>5, <3>1 DEF Replace, ReplaceFails, Undo, UndoFails, First
      <3>4. q \in compared[k]
            BY <2>0, <3>2, <3>3 DEF Hand
      <3> QED BY <2>0, <3>3, <3>2, <3>4 DEF Known, Applying
    <2> QED BY <1>1, <2>1, <2>2, <2>3, <2>4, <2>5 DEF Next, CodexClose, ClaudeClose
  <1>2. ScopeInv /\ KnownInv /\ [Next]_vars =>
          [\A r \in Runs, p \in Paths :
             (source'[p] # source[p] /\ <<phase'[r], left'[r]>> # <<phase[r], left[r]>>)
             => /\ p \in compared[r]
                /\ p \in late[r] \/ source[p] \in {base[r][p], copy[r][p], "none"}]_vars
        BY <1>1
  <1> QED BY <1>2, KnownAlways, PTL DEF Spec, ChangesKept
=============================================================================
