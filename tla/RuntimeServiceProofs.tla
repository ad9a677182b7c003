------------------------ MODULE RuntimeServiceProofs ------------------------
(***************************************************************************)
(* Proofs about RuntimeService, for any owners, jobs, TTL and fault bound. *)
(*                                                                         *)
(* What a process remembers about a lease is only worth something if it    *)
(* agrees with the row.  LeaseInv says it does: a process with ticks left  *)
(* is named by the row, with exactly those ticks.  Both freshness          *)
(* properties follow, because a row names one owner.                       *)
(***************************************************************************)
EXTENDS RuntimeService, TLAPS

\* Columns of one row agree with each other.
RowInv ==
  \A j \in Jobs :
    /\ status[j] = "RUNNING" <=> owner[j] # None
    /\ status[j] # "RUNNING" => left[j] = 0

\* A process has a job exactly while it is between claim and end of cycle.
CycleInv ==
  \A o \in Owners :
    /\ mine[o] = None <=> pc[o] \in {"down", "idle", "reconciling"}
    /\ pc[o] = "down" => o \notin stalled

\* Leases a process counts on are the leases of the rows.
FreshInv ==
  \A o \in Owners :
    /\ svcFresh[o] > 0 => lease.owner = o /\ lease.left = svcFresh[o]
    /\ jobFresh[o] > 0 => /\ mine[o] \in Jobs
                          /\ owner[mine[o]] = o
                          /\ left[mine[o]] = jobFresh[o]

LeaseInv == RowInv /\ CycleInv /\ FreshInv /\ NoForgottenJob

\* attempts counts claims, up to two.
AttemptInv ==
  /\ \A o \in Owners : /\ mine[o] \in Jobs => attempts[mine[o]] >= 1
                       /\ pc[o] = "claimed" => seen[o] = 0
                       /\ mine[o] = None => seen[o] = 0
  /\ \A o, p \in Owners :
       o # p /\ mine[o] \in Jobs /\ mine[o] = mine[p]
         => attempts[mine[o]] = 2 /\ ~(seen[o] = 1 /\ seen[p] = 1)

-----------------------------------------------------------------------------
LEMMA SettleJobTypes ==
  ASSUME TypeOK, NEW j \in Jobs, NEW o \in Owners,
         NEW final \in Status, SettleJob(j, o, final)
  PROVE  /\ status' \in [Jobs -> Status]
         /\ owner' \in [Jobs -> Owners \cup {None}]
         /\ left' \in [Jobs -> 0..LeaseTtl]
         /\ attempts' \in [Jobs -> 0..2]
         /\ created' \in [Jobs -> Nat]
  BY TtlAssumption DEF TypeOK, SettleJob, jobVars

LEMMA EndCycleTypes ==
  ASSUME TypeOK, NEW o \in Owners, EndCycle(o)
  PROVE  /\ pc' \in [Owners -> Pc]
         /\ mine' \in [Owners -> Jobs \cup {None}]
         /\ seen' \in [Owners -> 0..2]
         /\ leaseLost' \in [Owners -> BOOLEAN]
         /\ jobFresh' \in [Owners -> 0..LeaseTtl]
  <1>1. pc' \in [Owners -> Pc]
    BY DEF TypeOK, EndCycle, Pc
  <1>2. leaseLost' \in [Owners -> BOOLEAN]
    BY DEF TypeOK, EndCycle
  <1> QED BY <1>1, <1>2, TtlAssumption DEF TypeOK, EndCycle

LEMMA RequeueTypes ==
  ASSUME TypeOK, NEW o \in Owners, Requeue(o)
  PROVE  /\ status' \in [Jobs -> Status]
         /\ owner' \in [Jobs -> Owners \cup {None}]
         /\ left' \in [Jobs -> 0..LeaseTtl]
         /\ attempts' \in [Jobs -> 0..2]
         /\ created' \in [Jobs -> Nat]
  BY TtlAssumption DEF TypeOK, Requeue, Status

LEMMA ReleaseTypes ==
  ASSUME TypeOK, NEW o \in Owners, Release(o)
  PROVE  lease' \in [owner : Owners \cup {None}, left : 0..LeaseTtl]
  BY TtlAssumption DEF TypeOK, Release

\* Every step keeps every variable in its type.  Reading the attempts of the
\* claimed job back needs CycleInv: the process does have a job then.
LEMMA TypeStep == TypeOK /\ CycleInv /\ [Next]_vars => TypeOK'
  <1> SUFFICES ASSUME TypeOK, CycleInv, [Next]_vars PROVE TypeOK'
    OBVIOUS
  <1> USE TtlAssumption
  <1>0. \A o \in Owners : pc[o] \notin {"down", "idle", "reconciling"}
                            => mine[o] \in Jobs
    BY DEF TypeOK, CycleInv
  <1>1. ASSUME NEW j \in Jobs, Enqueue(j) PROVE TypeOK'
    BY <1>1 DEF TypeOK, Enqueue, Status
  <1>2. ASSUME NEW o \in Owners, Start(o) PROVE TypeOK'
    BY <1>2 DEF TypeOK, Start, LeaseFree, Pc, jobVars, cycleVars
  <1>3. ASSUME NEW o \in Owners, BeginCycle(o) PROVE TypeOK'
    BY <1>3 DEF TypeOK, BeginCycle, RenewLease, Pc, jobVars, cycleVars
  <1>4. ASSUME NEW o \in Owners, LoseLease(o) PROVE TypeOK'
    BY <1>4, RequeueTypes, ReleaseTypes DEF TypeOK, LoseLease, Pc, cycleVars
  <1>5. ASSUME NEW o \in Owners, NEW j \in Jobs, ClaimNext(o, j) PROVE TypeOK'
    BY <1>5 DEF TypeOK, ClaimNext, CountClaim, Pc, Status
  <1>6. ASSUME NEW o \in Owners, FindNoJob(o) PROVE TypeOK'
    BY <1>6, EndCycleTypes DEF TypeOK, FindNoJob, jobVars
  <1>7. ASSUME NEW o \in Owners, ReadClaimed(o) PROVE TypeOK'
    BY <1>7, <1>0 DEF TypeOK, ReadClaimed, Pc, jobVars
  <1>8. ASSUME NEW o \in Owners, BeatService(o) PROVE TypeOK'
    <2>1. leaseLost' \in [Owners -> BOOLEAN]
      BY <1>8 DEF TypeOK, BeatService
    <2>2. /\ lease' \in [owner : Owners \cup {None}, left : 0..LeaseTtl]
          /\ svcFresh' \in [Owners -> 0..LeaseTtl]
          /\ pc' \in [Owners -> Pc]
      BY <1>8 DEF TypeOK, BeatService, RenewLease, Pc
    <2> QED BY <1>8, <2>1, <2>2 DEF TypeOK, BeatService, jobVars
  <1>9. ASSUME NEW o \in Owners, BeatJob(o) PROVE TypeOK'
    <2>1. leaseLost' \in [Owners -> BOOLEAN]
      BY <1>9 DEF TypeOK, BeatJob
    <2>2. /\ left' \in [Jobs -> 0..LeaseTtl]
          /\ jobFresh' \in [Owners -> 0..LeaseTtl]
          /\ pc' \in [Owners -> Pc]
      BY <1>9 DEF TypeOK, BeatJob, Pc
    <2> QED BY <1>9, <2>1, <2>2 DEF TypeOK, BeatJob
  <1>10. ASSUME NEW o \in Owners, Complete(o) PROVE TypeOK'
    <2>1. mine[o] \in Jobs /\ "COMPLETED" \in Status
      BY <1>10, <1>0 DEF Complete, Status
    <2>2. /\ status' \in [Jobs -> Status]
          /\ owner' \in [Jobs -> Owners \cup {None}]
          /\ left' \in [Jobs -> 0..LeaseTtl]
          /\ attempts' \in [Jobs -> 0..2]
          /\ created' \in [Jobs -> Nat]
      BY <1>10, <2>1, SettleJobTypes DEF Complete
    <2> QED BY <1>10, <2>2 DEF TypeOK, Complete, Pc
  <1>11. ASSUME NEW o \in Owners, Confirm(o) PROVE TypeOK'
    <2>1. mine[o] \in Jobs
      BY <1>11, <1>0 DEF Confirm
    <2>2. /\ status' \in [Jobs -> Status]
          /\ owner' \in [Jobs -> Owners \cup {None}]
          /\ left' \in [Jobs -> 0..LeaseTtl]
          /\ attempts' \in [Jobs -> 0..2]
          /\ created' \in [Jobs -> Nat]
      BY <1>11, <2>1, SettleJobTypes DEF Confirm, TypeOK, Status, jobVars
    <2> QED BY <1>11, <2>2, EndCycleTypes DEF TypeOK, Confirm
  <1>12. ASSUME NEW o \in Owners, Fail(o) PROVE TypeOK'
    BY <1>12, <1>0, SettleJobTypes, EndCycleTypes DEF TypeOK, Fail, Status
  <1>13. ASSUME NEW o \in Owners, Close(o) PROVE TypeOK'
    BY <1>13, RequeueTypes, ReleaseTypes DEF TypeOK, Close, Fault, Pc
  <1>14. ASSUME NEW o \in Owners, Crash(o) PROVE TypeOK'
    BY <1>14 DEF TypeOK, Crash, Fault, Pc, jobVars
  <1>15. ASSUME NEW o \in Owners, Stall(o) \/ Resume(o) PROVE TypeOK'
    BY <1>15 DEF TypeOK, Stall, Resume, Fault, jobVars, cycleVars
  <1>16. ASSUME Tick PROVE TypeOK'
    <2>1. \A n \in 0..LeaseTtl : Less(n) \in 0..LeaseTtl
      BY DEF Less
    <2>2. lease' \in [owner : Owners \cup {None}, left : 0..LeaseTtl]
      BY <1>16, <2>1 DEF TypeOK, Tick
    <2>3. /\ left' \in [Jobs -> 0..LeaseTtl]
          /\ svcFresh' \in [Owners -> 0..LeaseTtl]
          /\ jobFresh' \in [Owners -> 0..LeaseTtl]
      BY <1>16, <2>1 DEF TypeOK, Tick
    <2> QED BY <1>16, <2>2, <2>3 DEF TypeOK, Tick
  <1>17. CASE UNCHANGED vars
    BY <1>17 DEF TypeOK, vars
  <1> QED
    BY <1>1, <1>2, <1>3, <1>4, <1>5, <1>6, <1>7, <1>8, <1>9, <1>10, <1>11,
       <1>12, <1>13, <1>14, <1>15, <1>16, <1>17 DEF Next, Work

-----------------------------------------------------------------------------
\* What the WHERE clauses of the settling statements come down to: either the
\* row is the process's own and is closed, or nothing changes.
LEMMA RowStep == TypeOK /\ LeaseInv /\ [Next]_vars => RowInv'
  <1> SUFFICES ASSUME TypeOK, LeaseInv, [Next]_vars PROVE RowInv'
    OBVIOUS
  <1> USE TtlAssumption, NoneAssumption DEF RowInv
  <1>0. RowInv /\ CycleInv BY DEF LeaseInv
  <1>00. \A o \in Owners : pc[o] \in {"working", "confirming"} => mine[o] \in Jobs
    BY <1>0 DEF TypeOK, CycleInv
  <1>1. ASSUME NEW j \in Jobs, Enqueue(j) PROVE RowInv'
    BY <1>0, <1>1 DEF TypeOK, Enqueue
  <1>2. ASSUME NEW o \in Owners, LoseLease(o) \/ Close(o) PROVE RowInv'
    BY <1>0, <1>2 DEF TypeOK, LoseLease, Close, Requeue, OwnedRow
  <1>3. ASSUME NEW o \in Owners, NEW j \in Jobs, ClaimNext(o, j) PROVE RowInv'
    BY <1>0, <1>3 DEF TypeOK, ClaimNext
  <1>4. ASSUME NEW o \in Owners, BeatJob(o) PROVE RowInv'
    BY <1>0, <1>4 DEF TypeOK, BeatJob, OwnedRow
  <1>5. ASSUME NEW j \in Jobs, NEW o \in Owners, NEW final \in Status \ {"RUNNING"},
               SettleJob(j, o, final)
        PROVE  RowInv'
    BY <1>0, <1>5 DEF TypeOK, SettleJob, OwnedRow, jobVars
  <1>6. ASSUME NEW o \in Owners, Complete(o) PROVE RowInv'
    BY <1>00, <1>5, <1>6 DEF Complete, Status
  <1>7. ASSUME NEW o \in Owners, Fail(o) PROVE RowInv'
    BY <1>00, <1>5, <1>7 DEF Fail, Status
  <1>8. ASSUME NEW o \in Owners, Confirm(o) PROVE RowInv'
    BY <1>0, <1>00, <1>5, <1>8 DEF Confirm, Status, jobVars
  <1>9. ASSUME Tick PROVE RowInv'
    BY <1>0, <1>9 DEF TypeOK, Tick, Less
  <1>10. CASE UNCHANGED jobVars
    BY <1>0, <1>10 DEF jobVars
  <1> QED
    BY <1>1, <1>2, <1>3, <1>4, <1>6, <1>7, <1>8, <1>9, <1>10
    DEF Next, Work, vars, jobVars, Start, BeginCycle, FindNoJob, ReadClaimed,
        BeatService, Crash, Stall, Resume

\* A process has a job exactly from its claim to the end of its cycle.
LEMMA CycleStep == TypeOK /\ CycleInv /\ [Next]_vars => CycleInv'
  <1> SUFFICES ASSUME TypeOK, CycleInv, [Next]_vars PROVE CycleInv'
    OBVIOUS
  <1> USE NoneAssumption DEF CycleInv, TypeOK
  <1>1. ASSUME NEW o \in Owners, NEW j \in Jobs, ClaimNext(o, j) PROVE CycleInv'
    BY <1>1 DEF ClaimNext, Active
  <1>2. ASSUME NEW o \in Owners, EndCycle(o), Active(o), UNCHANGED stalled
        PROVE  CycleInv'
    BY <1>2 DEF EndCycle, Active
  <1>3. ASSUME NEW o \in Owners,
               FindNoJob(o) \/ Confirm(o) \/ Fail(o) \/ Crash(o)
        PROVE  CycleInv'
    BY <1>2, <1>3 DEF FindNoJob, Confirm, Fail, Crash
  <1>4. ASSUME NEW o \in Owners,
               Start(o) \/ BeginCycle(o) \/ LoseLease(o) \/ Close(o)
        PROVE  CycleInv'
    BY <1>4 DEF Start, BeginCycle, LoseLease, Close, Active, cycleVars
  <1>5. ASSUME NEW o \in Owners,
               ReadClaimed(o) \/ BeatService(o) \/ BeatJob(o) \/ Complete(o)
        PROVE  CycleInv'
    BY <1>5 DEF ReadClaimed, BeatService, BeatJob, Complete, Active
  <1>6. ASSUME NEW o \in Owners, Stall(o) \/ Resume(o) PROVE CycleInv'
    BY <1>6 DEF Stall, Resume, Active, cycleVars
  <1>7. CASE UNCHANGED <<pc, mine, stalled>>
    BY <1>7
  <1> QED
    BY <1>1, <1>3, <1>4, <1>5, <1>6, <1>7
    DEF Next, Work, Enqueue, Tick, vars

\* The two halves of FreshInv, by themselves.
SvcFreshInv ==
  \A o \in Owners : svcFresh[o] > 0 => lease.owner = o /\ lease.left = svcFresh[o]

JobFreshInv ==
  \A o \in Owners : jobFresh[o] > 0 => /\ mine[o] \in Jobs
                                       /\ owner[mine[o]] = o
                                       /\ left[mine[o]] = jobFresh[o]

\* The service lease row only changes hands when nobody counts on it.
LEMMA SvcFreshStep == TypeOK /\ SvcFreshInv /\ [Next]_vars => SvcFreshInv'
  <1> SUFFICES ASSUME TypeOK, SvcFreshInv, [Next]_vars PROVE SvcFreshInv'
    OBVIOUS
  <1> USE TtlAssumption, NoneAssumption DEF SvcFreshInv, TypeOK
  <1>1. ASSUME NEW o \in Owners, Start(o) PROVE SvcFreshInv'
    BY <1>1 DEF Start, LeaseFree
  <1>2. ASSUME NEW o \in Owners, BeginCycle(o) PROVE SvcFreshInv'
    BY <1>2 DEF BeginCycle, HoldsLease, RenewLease
  <1>3. ASSUME NEW o \in Owners, BeatService(o) PROVE SvcFreshInv'
    BY <1>3 DEF BeatService, HoldsLease, RenewLease
  <1>4. ASSUME NEW o \in Owners, LoseLease(o) \/ Close(o) PROVE SvcFreshInv'
    BY <1>4 DEF LoseLease, Close, Release
  <1>5. ASSUME NEW o \in Owners, Crash(o) PROVE SvcFreshInv'
    BY <1>5 DEF Crash
  <1>6. ASSUME Tick PROVE SvcFreshInv'
    BY <1>6 DEF Tick, Less
  <1>7. CASE UNCHANGED <<lease, svcFresh>>
    BY <1>7
  <1> QED
    BY <1>1, <1>2, <1>3, <1>4, <1>5, <1>6, <1>7
    DEF Next, Work, vars, Enqueue, ClaimNext, FindNoJob, ReadClaimed, BeatJob,
        Complete, Confirm, Fail, Stall, Resume

\* A job row leaves a worker that still counts on it only by that worker's
\* own step.
LEMMA JobFreshStep ==
  TypeOK /\ RowInv /\ CycleInv /\ JobFreshInv /\ [Next]_vars => JobFreshInv'
  <1> SUFFICES ASSUME TypeOK, RowInv, CycleInv, JobFreshInv, [Next]_vars
               PROVE  JobFreshInv'
    OBVIOUS
  <1> USE TtlAssumption, NoneAssumption DEF JobFreshInv, TypeOK
  <1>1. ASSUME NEW o \in Owners, NEW j \in Jobs, ClaimNext(o, j) PROVE JobFreshInv'
    BY <1>1 DEF ClaimNext, NextClaimable, Claimable, RowInv, CycleInv
  <1>2. ASSUME NEW o \in Owners, BeatJob(o) PROVE JobFreshInv'
    <2>1. mine[o] \in Jobs
      BY <1>2 DEF BeatJob, CycleInv
    <2>2. CASE OwnedRow(mine[o], o) /\ left[mine[o]] > 0
      BY <1>2, <2>1, <2>2 DEF BeatJob, OwnedRow
    <2>3. CASE ~(OwnedRow(mine[o], o) /\ left[mine[o]] > 0)
      BY <1>2, <2>3 DEF BeatJob
    <2> QED BY <2>2, <2>3
  <1>3. ASSUME NEW o \in Owners, LoseLease(o) PROVE JobFreshInv'
    BY <1>3 DEF LoseLease, Requeue, OwnedRow, CycleInv, cycleVars
  <1>4. ASSUME NEW o \in Owners, Close(o) PROVE JobFreshInv'
    BY <1>4 DEF Close, Requeue, OwnedRow
  <1>5. ASSUME NEW j \in Jobs, NEW o \in Owners, NEW final, mine[o] = j,
               SettleJob(j, o, final),
               mine' = mine \/ mine' = [mine EXCEPT ![o] = None],
               jobFresh' = [jobFresh EXCEPT ![o] = 0]
        PROVE  JobFreshInv'
    <2>1. CASE OwnedRow(j, o)
      BY <1>5, <2>1 DEF SettleJob, OwnedRow
    <2>2. CASE ~OwnedRow(j, o)
      BY <1>5, <2>2 DEF SettleJob, jobVars
    <2> QED BY <2>1, <2>2
  <1>6. ASSUME NEW o \in Owners, Complete(o) \/ Fail(o) PROVE JobFreshInv'
    <2>1. mine[o] \in Jobs
      BY <1>6 DEF Complete, Fail, CycleInv
    <2>2. PICK final : SettleJob(mine[o], o, final)
      BY <1>6 DEF Complete, Fail
    <2>3. /\ mine' = mine \/ mine' = [mine EXCEPT ![o] = None]
          /\ jobFresh' = [jobFresh EXCEPT ![o] = 0]
      BY <1>6 DEF Complete, Fail, EndCycle
    <2> QED BY <1>5, <2>1, <2>2, <2>3
  <1>7. ASSUME NEW o \in Owners, Confirm(o) PROVE JobFreshInv'
    <2>1. CASE status[mine[o]] = "COMPLETED"
      BY <1>7, <2>1 DEF Confirm, EndCycle, jobVars
    <2>2. CASE status[mine[o]] # "COMPLETED"
      <3>1. mine[o] \in Jobs
        BY <1>7 DEF Confirm, CycleInv
      <3>2. SettleJob(mine[o], o, "FAILED") /\ EndCycle(o)
        BY <1>7, <2>2 DEF Confirm
      <3> QED BY <1>5, <3>1, <3>2 DEF EndCycle
    <2> QED BY <2>1, <2>2
  <1>8. ASSUME NEW o \in Owners, Crash(o) PROVE JobFreshInv'
    BY <1>8 DEF Crash, jobVars
  <1>9. ASSUME NEW o \in Owners, FindNoJob(o) PROVE JobFreshInv'
    BY <1>9 DEF FindNoJob, EndCycle, jobVars
  <1>10. ASSUME Tick PROVE JobFreshInv'
    BY <1>10 DEF Tick, Less
  <1>11. CASE UNCHANGED <<owner, left, mine, jobFresh>>
    BY <1>11
  <1> QED
    BY <1>1, <1>2, <1>3, <1>4, <1>6, <1>7, <1>8, <1>9, <1>10, <1>11
    DEF Next, Work, vars, jobVars, cycleVars, Enqueue, Start, BeginCycle,
        ReadClaimed, BeatService, Stall, Resume

\* A live process is working on every row that names it.
LEMMA NoForgottenStep ==
  TypeOK /\ CycleInv /\ NoForgottenJob /\ [Next]_vars => NoForgottenJob'
  <1> SUFFICES ASSUME TypeOK, CycleInv, NoForgottenJob, [Next]_vars
               PROVE  NoForgottenJob'
    OBVIOUS
  <1> USE NoneAssumption DEF NoForgottenJob, TypeOK, OwnedRow
  <1>1. ASSUME NEW o \in Owners, NEW j \in Jobs, ClaimNext(o, j)
        PROVE  NoForgottenJob'
    BY <1>1 DEF ClaimNext, CycleInv
  <1>2. ASSUME NEW j \in Jobs, Enqueue(j) PROVE NoForgottenJob'
    BY <1>2 DEF Enqueue
  <1>3. ASSUME NEW o \in Owners, Start(o) PROVE NoForgottenJob'
    BY <1>3 DEF Start, Unused, jobVars, cycleVars
  <1>4. ASSUME NEW o \in Owners, LoseLease(o) \/ Close(o) PROVE NoForgottenJob'
    BY <1>4 DEF LoseLease, Close, Requeue, cycleVars
  <1>5. ASSUME NEW j \in Jobs, NEW o \in Owners, NEW final \in Status \ {"RUNNING"},
               mine[o] = j, SettleJob(j, o, final),
               \/ EndCycle(o)
               \/ mine' = mine /\ pc' = [pc EXCEPT ![o] = "confirming"]
        PROVE  NoForgottenJob'
    <2>1. pc[o] # "down"
      BY <1>5 DEF CycleInv
    <2>2. CASE OwnedRow(j, o)
      BY <1>5, <2>1, <2>2 DEF SettleJob, EndCycle
    <2>3. CASE ~OwnedRow(j, o)
      BY <1>5, <2>1, <2>3 DEF SettleJob, EndCycle, jobVars
    <2> QED BY <2>2, <2>3
  <1>6. ASSUME NEW o \in Owners, Complete(o) \/ Fail(o) PROVE NoForgottenJob'
    BY <1>5, <1>6 DEF Complete, Fail, CycleInv, Status
  <1>7. ASSUME NEW o \in Owners, Confirm(o) PROVE NoForgottenJob'
    <2>1. CASE status[mine[o]] = "COMPLETED"
      BY <1>7, <2>1 DEF Confirm, EndCycle, jobVars
    <2>2. CASE status[mine[o]] # "COMPLETED"
      BY <1>5, <1>7, <2>2 DEF Confirm, CycleInv, Status
    <2> QED BY <2>1, <2>2
  <1>8. ASSUME NEW o \in Owners, FindNoJob(o) PROVE NoForgottenJob'
    BY <1>8 DEF FindNoJob, EndCycle, CycleInv, jobVars
  <1>9. ASSUME NEW o \in Owners, Crash(o) PROVE NoForgottenJob'
    BY <1>9 DEF Crash, jobVars
  <1>10. CASE /\ UNCHANGED <<status, owner, mine>>
              /\ \A o \in Owners : pc'[o] # "down" => pc[o] # "down"
    BY <1>10
  <1> QED
    BY <1>1, <1>2, <1>3, <1>4, <1>6, <1>7, <1>8, <1>9, <1>10
    DEF Next, Work, vars, jobVars, cycleVars, BeginCycle, ReadClaimed,
        BeatService, BeatJob, Stall, Resume, Tick, Active

\* Claims are counted before a handler can read the count, so two processes
\* that have one job are told apart.
LEMMA AttemptStep ==
  TypeOK /\ CycleInv /\ AttemptInv /\ [Next]_vars => AttemptInv'
  <1> SUFFICES ASSUME TypeOK, CycleInv, AttemptInv, [Next]_vars
               PROVE  AttemptInv'
    OBVIOUS
  <1> USE NoneAssumption DEF AttemptInv, TypeOK
  <1>1. ASSUME NEW o \in Owners, NEW j \in Jobs, ClaimNext(o, j)
        PROVE  AttemptInv'
    <2>1. mine[o] = None /\ seen[o] = 0
      BY <1>1 DEF ClaimNext, CycleInv
    <2>2. \A p \in Owners \ {o} : /\ mine'[p] = mine[p]
                                  /\ pc'[p] = pc[p]
      BY <1>1 DEF ClaimNext
    <2>3. mine'[o] = j /\ seen' = seen /\ attempts'[j] >= 1
      BY <1>1 DEF ClaimNext, CountClaim
    <2>4. \A i \in Jobs : attempts'[i] >= attempts[i]
      BY <1>1 DEF ClaimNext, CountClaim
    <2>5. \A p \in Owners \ {o} : mine[p] = j => attempts'[j] = 2
      BY <1>1 DEF ClaimNext, CountClaim
    <2>6. attempts' \in [Jobs -> 0..2]
      BY <1>1 DEF ClaimNext, CountClaim
    <2>7. ASSUME NEW p \in Owners
          PROVE  /\ mine'[p] \in Jobs => attempts'[mine'[p]] >= 1
                 /\ pc'[p] = "claimed" => seen'[p] = 0
                 /\ mine'[p] = None => seen'[p] = 0
      <3>1. CASE p = o
        BY <3>1, <2>1, <2>3
      <3>2. CASE p # o
        BY <3>2, <2>2, <2>3, <2>4, <2>6
      <3> QED BY <3>1, <3>2
    <2>8. ASSUME NEW p \in Owners, NEW q \in Owners,
                 p # q, mine'[p] \in Jobs, mine'[p] = mine'[q]
          PROVE  attempts'[mine'[p]] = 2 /\ ~(seen'[p] = 1 /\ seen'[q] = 1)
      <3>1. CASE p = o
        BY <3>1, <2>1, <2>2, <2>3, <2>5, <2>8
      <3>2. CASE q = o
        BY <3>2, <2>1, <2>2, <2>3, <2>5, <2>8
      <3>3. CASE p # o /\ q # o
        <4>1. mine[p] \in Jobs /\ mine[p] = mine[q] /\ mine'[p] = mine[p]
          BY <3>3, <2>2, <2>8
        <4>2. attempts[mine[p]] = 2 /\ ~(seen[p] = 1 /\ seen[q] = 1)
          BY <4>1, <2>8
        <4>3. attempts'[mine[p]] >= 2 /\ attempts'[mine[p]] \in 0..2
          BY <4>1, <4>2, <2>4, <2>6
        <4> QED BY <4>1, <4>2, <4>3, <2>3
      <3> QED BY <3>1, <3>2, <3>3
    <2> QED BY <2>7, <2>8
  <1>2. ASSUME NEW o \in Owners, ReadClaimed(o) PROVE AttemptInv'
    BY <1>2 DEF ReadClaimed, CycleInv, jobVars
  <1>3. ASSUME NEW o \in Owners, UNCHANGED attempts,
               mine' = [mine EXCEPT ![o] = None],
               seen' = [seen EXCEPT ![o] = 0],
               \A p \in Owners : pc'[p] = "claimed" => pc[p] = "claimed"
        PROVE  AttemptInv'
    BY <1>3
  <1>4. ASSUME NEW o \in Owners,
               FindNoJob(o) \/ Confirm(o) \/ Fail(o) \/ Crash(o)
        PROVE  AttemptInv'
    <2>1. UNCHANGED attempts
      BY <1>4 DEF FindNoJob, Confirm, Fail, Crash, SettleJob, jobVars
    <2>2. /\ mine' = [mine EXCEPT ![o] = None]
          /\ seen' = [seen EXCEPT ![o] = 0]
          /\ \A p \in Owners : pc'[p] = "claimed" => pc[p] = "claimed"
      BY <1>4 DEF FindNoJob, Confirm, Fail, Crash, EndCycle
    <2> QED BY <1>3, <2>1, <2>2
  <1>5. CASE /\ UNCHANGED <<attempts, mine, seen>>
             /\ \A p \in Owners : pc'[p] = "claimed" => pc[p] = "claimed"
    BY <1>5
  <1> QED
    BY <1>1, <1>2, <1>4, <1>5
    DEF Next, Work, vars, jobVars, cycleVars, Enqueue, Start, BeginCycle,
        LoseLease, BeatService, BeatJob, Complete, SettleJob, Close, Requeue,
        Stall, Resume, Tick

-----------------------------------------------------------------------------
Inv == TypeOK /\ LeaseInv /\ AttemptInv

LEMMA InitInv == Init => Inv
  BY TtlAssumption, NoneAssumption
  DEF Init, Inv, TypeOK, LeaseInv, RowInv, CycleInv, FreshInv, NoForgottenJob,
      OwnedRow, AttemptInv, Status, Pc

LEMMA InvStep == Inv /\ [Next]_vars => Inv'
  <1> SUFFICES ASSUME Inv, [Next]_vars PROVE Inv'
    OBVIOUS
  <1>1. TypeOK /\ RowInv /\ CycleInv /\ SvcFreshInv /\ JobFreshInv
    BY DEF Inv, LeaseInv, FreshInv, SvcFreshInv, JobFreshInv
  <1>2. SvcFreshInv' /\ JobFreshInv'
    BY <1>1, SvcFreshStep, JobFreshStep
  <1>3. FreshInv'
    BY <1>2 DEF FreshInv, SvcFreshInv, JobFreshInv
  <1> QED
    BY <1>1, <1>3, TypeStep, RowStep, CycleStep, NoForgottenStep, AttemptStep
    DEF Inv, LeaseInv

\* The invariant holds of every behaviour.
THEOREM Invariance == Spec => []Inv
  BY InitInv, InvStep, PTL DEF Spec

\* The model is well typed for any owners, jobs, TTL and fault bound.
THEOREM TypeCorrect == Spec => []TypeOK
  <1>1. Inv => TypeOK BY DEF Inv
  <1> QED BY <1>1, Invariance, PTL

\* No two workers run one job while both still count on their job leases.
THEOREM WorkersExclusive == Spec => []OneFreshWorker
  <1>1. Inv => OneFreshWorker
    BY DEF Inv, LeaseInv, FreshInv, OneFreshWorker
  <1> QED BY <1>1, Invariance, PTL

\* No two services still count on the service lease.
THEOREM ServicesExclusive == Spec => []OneFreshService
  <1>1. Inv => OneFreshService
    BY DEF Inv, LeaseInv, FreshInv, OneFreshService
  <1> QED BY <1>1, Invariance, PTL

\* No live service polls on while a row says it is running a job.
THEOREM NothingForgotten == Spec => []NoForgottenJob
  <1>1. Inv => NoForgottenJob
    BY DEF Inv, LeaseInv
  <1> QED BY <1>1, Invariance, PTL

\* Of the handlers inside one job at most one takes it for a first attempt.
THEOREM RerunsFlagged == Spec => []RerunIsFlagged
  <1>1. Inv => RerunIsFlagged
    BY DEF Inv, TypeOK, LeaseInv, CycleInv, AttemptInv, RerunIsFlagged, InHandler
  <1> QED BY <1>1, Invariance, PTL

-----------------------------------------------------------------------------
(* A service that always reaches its next statement in time, and is closed   *)
(* between its cycles only, never loses a lease: it may still die.           *)

Undisturbed == \A o \in Owners : ~Stall(o) /\ (Close(o) => pc[o] = "idle")

InTimeInv ==
  /\ stalled = {}
  /\ \A o \in Owners :
       /\ ~leaseLost[o]
       /\ pc[o] # "down" => svcFresh[o] > 0
       /\ pc[o] \in {"claimed", "working", "beating"} => jobFresh[o] > 0
       /\ pc[o] = "confirming" => status[mine[o]] = "COMPLETED"

\* One service at a time is up, and it runs what it claimed under its lease.
OneServiceUp == \A o, p \in Owners : pc[o] # "down" /\ pc[p] # "down" => o = p
HandlersOwn ==
  \A o \in Owners : InHandler(o) => OwnedRow(mine[o], o) /\ left[mine[o]] > 0

\* What a step leaves of one service's leases is enough for another one.
LEMMA InTimeStep ==
  Inv /\ InTimeInv /\ [Next]_vars /\ [Undisturbed]_vars => InTimeInv'
  <1> SUFFICES ASSUME Inv, InTimeInv, [Next]_vars, [Undisturbed]_vars PROVE InTimeInv'
    OBVIOUS
  <1>0. TypeOK /\ RowInv /\ CycleInv /\ FreshInv
    BY DEF Inv, LeaseInv
  <1>1. /\ \A o, p \in Owners : pc[o] # "down" /\ pc[p] # "down" => o = p
        /\ \A o \in Owners : pc[o] # "down" => Active(o) /\ HoldsLease(o)
        /\ \A o \in Owners : pc[o] \in {"claimed", "working", "beating"}
             => mine[o] \in Jobs /\ OwnedRow(mine[o], o) /\ left[mine[o]] > 0
    BY <1>0, NoneAssumption DEF InTimeInv, FreshInv, RowInv, Active, HoldsLease, OwnedRow, TypeOK
  <1>u. CASE UNCHANGED vars
    BY <1>u DEF InTimeInv, vars
  <1>n. ASSUME Next, Undisturbed PROVE InTimeInv'
    <2> USE TtlAssumption, NoneAssumption DEF InTimeInv, TypeOK
    <2>1. ASSUME NEW j \in Jobs, Enqueue(j) PROVE InTimeInv'
      BY <1>0, <2>1 DEF Enqueue, CycleInv
    <2>2. ASSUME NEW o \in Owners, Start(o) PROVE InTimeInv'
      BY <1>0, <2>2 DEF Start, jobVars, cycleVars
    <2>3. ASSUME NEW o \in Owners, BeginCycle(o) PROVE InTimeInv'
      BY <1>0, <2>3 DEF BeginCycle, jobVars, cycleVars
    <2>4. ASSUME NEW o \in Owners, LoseLease(o) PROVE FALSE
      BY <1>1, <2>4 DEF LoseLease
    <2>5. ASSUME NEW o \in Owners, NEW j \in Jobs, ClaimNext(o, j) PROVE InTimeInv'
      BY <1>0, <1>1, <2>5 DEF ClaimNext, CycleInv
    <2>6. ASSUME NEW o \in Owners, FindNoJob(o) PROVE InTimeInv'
      BY <1>0, <2>6 DEF FindNoJob, EndCycle, jobVars
    <2>7. ASSUME NEW o \in Owners, ReadClaimed(o) PROVE InTimeInv'
      BY <1>0, <2>7 DEF ReadClaimed, jobVars
    <2>8. ASSUME NEW o \in Owners, BeatService(o) PROVE InTimeInv'
      <3>1. HoldsLease(o)
        BY <1>1, <2>8 DEF BeatService
      <3> QED BY <1>0, <2>8, <3>1 DEF BeatService, jobVars
    <2>9. ASSUME NEW o \in Owners, BeatJob(o) PROVE InTimeInv'
      <3>1. OwnedRow(mine[o], o) /\ left[mine[o]] > 0
        BY <1>1, <2>9 DEF BeatJob
      <3> QED BY <1>0, <2>9, <3>1 DEF BeatJob
    <2>10. ASSUME NEW o \in Owners, Complete(o) PROVE InTimeInv'
      <3>1. mine[o] \in Jobs /\ OwnedRow(mine[o], o)
        BY <1>1, <2>10 DEF Complete
      <3>2. status' = [status EXCEPT ![mine[o]] = "COMPLETED"]
        BY <2>10, <3>1 DEF Complete, SettleJob
      <3> QED BY <1>0, <1>1, <2>10, <3>1, <3>2 DEF Complete
    <2>11. ASSUME NEW o \in Owners, Confirm(o) PROVE InTimeInv'
      BY <1>0, <2>11 DEF Confirm, EndCycle, jobVars
    <2>12. ASSUME NEW o \in Owners, Fail(o) PROVE InTimeInv'
      <3>1. \A p \in Owners \ {o} : pc[p] = "down"
        BY <1>1, <2>12 DEF Fail
      <3> QED BY <1>0, <2>12, <3>1 DEF Fail, EndCycle
    <2>13. ASSUME NEW o \in Owners, Close(o) PROVE InTimeInv'
      <3>1. pc[o] = "idle" /\ \A p \in Owners \ {o} : pc[p] = "down"
        BY <1>1, <1>n, <2>13 DEF Undisturbed, Close
      <3> QED BY <1>0, <2>13, <3>1 DEF Close
    <2>14. ASSUME NEW o \in Owners, Crash(o) PROVE InTimeInv'
      BY <1>0, <2>14 DEF Crash, jobVars
    <2>15. ASSUME NEW o \in Owners, Stall(o) \/ Resume(o) PROVE FALSE
      BY <1>n, <2>15 DEF Undisturbed, Resume
    <2>16. ASSUME Tick PROVE InTimeInv'
      <3>1. ASSUME NEW o \in Owners, pc[o] # "down" PROVE svcFresh[o] # 1 /\ jobFresh[o] # 1
        <4>1. Timely(o) /\ Active(o)
          BY <1>1, <2>16, <3>1 DEF Tick
        <4> QED BY <4>1 DEF Timely
      <3> QED BY <1>0, <2>16, <3>1 DEF Tick, Less
    <2> QED
      BY <1>n, <2>1, <2>2, <2>3, <2>4, <2>5, <2>6, <2>7, <2>8, <2>9, <2>10, <2>11, <2>12,
         <2>13, <2>14, <2>15, <2>16 DEF Next, Work
  <1> QED BY <1>u, <1>n

\* While services are only started, closed between two cycles, killed and
\* started again, one at a time is up, and the row of the job its handler is in
\* is its own, with a running lease. It is the one worker that OneWorkerProofs
\* speaks of. (acquireLease, renewLease, claimNextJob, renewJobLease)
THEOREM UndisturbedServicesAlone ==
  Spec /\ [][Undisturbed]_vars => [](OneServiceUp /\ HandlersOwn)
  <1>1. Init => InTimeInv
    BY DEF Init, InTimeInv
  <1>2. Inv /\ InTimeInv => OneServiceUp /\ HandlersOwn
    <2> SUFFICES ASSUME Inv, InTimeInv PROVE OneServiceUp /\ HandlersOwn
      OBVIOUS
    <2>1. TypeOK /\ RowInv /\ FreshInv
      BY DEF Inv, LeaseInv
    <2>2. OneServiceUp
      BY <2>1 DEF InTimeInv, FreshInv, OneServiceUp
    <2>3. HandlersOwn
      BY <2>1, NoneAssumption DEF InTimeInv, FreshInv, RowInv, HandlersOwn, InHandler, OwnedRow, TypeOK
    <2> QED BY <2>2, <2>3
  <1> QED BY <1>1, <1>2, InTimeStep, Invariance, PTL DEF Spec

-----------------------------------------------------------------------------
(* The job table implements JobLedger.                                       *)

\* Settling a row the process owns is the ledger's Settle; a settling
\* statement that finds no such row is at most the worker stopping.
LEMMA SettleRefines ==
  ASSUME Inv, NEW o \in Owners, mine[o] \in Jobs,
         NEW final \in {"COMPLETED", "FAILED"}, SettleJob(mine[o], o, final),
         mine' = mine \/ mine' = [mine EXCEPT ![o] = None]
  PROVE  [Ledger!Next]_(Ledger!vars)
  <1> DEFINE j == mine[o]
  <1>1. CASE OwnedRow(j, o)
    <2>1. Phase(j) = "open"
      BY <1>1 DEF Phase, OwnedRow
    <2>2. [i \in Jobs |-> Phase(i)]' = [[i \in Jobs |-> Phase(i)] EXCEPT ![j] = "settled"]
      BY <1>1 DEF Phase, SettleJob, Inv, TypeOK
    <2>3. Expired' = Expired \ {j}
      BY <1>1 DEF Expired, SettleJob, Inv, TypeOK
    <2>4. owner' = [owner EXCEPT ![j] = None] /\ owner[j] = o
      BY <1>1 DEF SettleJob, OwnedRow
    <2>5. Ledger!Settle(j, o)
      BY <2>1, <2>2, <2>3, <2>4 DEF Ledger!Settle, Ledger!Stop
    <2> QED BY <2>5 DEF Ledger!Next
  <1>2. CASE ~OwnedRow(j, o)
    <2>1. /\ UNCHANGED <<[i \in Jobs |-> Phase(i)], owner, Expired>>
      BY <1>2 DEF SettleJob, jobVars, Phase, Expired
    <2> QED BY <2>1 DEF Ledger!Next, Ledger!Abandon, Ledger!Stop, Ledger!vars
  <1> QED BY <1>1, <1>2

\* Requeueing rows hands them back.
LEMMA RequeueRefines ==
  ASSUME Inv, NEW o \in Owners, Requeue(o), mine' = mine
  PROVE  [Ledger!Next]_(Ledger!vars)
  <1>1. UNCHANGED [i \in Jobs |-> Phase(i)]
    BY DEF Requeue, Phase, OwnedRow, Inv, TypeOK
  <1>2. owner' = [i \in Jobs |-> IF owner[i] = o THEN None ELSE owner[i]]
    BY NoneAssumption DEF Requeue, OwnedRow, Inv, TypeOK, LeaseInv, RowInv
  <1>3. Expired' = {i \in Expired : owner[i] # o}
    BY DEF Requeue, Expired, OwnedRow, Inv, TypeOK
  <1>4. Ledger!GiveBack(o)
    BY <1>1, <1>2, <1>3 DEF Ledger!GiveBack
  <1> QED BY <1>4 DEF Ledger!Next

\* Every step of the services is a step of the ledger or invisible to it.
LEMMA LedgerStep == Inv /\ [Next]_vars => [Ledger!Next]_(Ledger!vars)
  <1> SUFFICES ASSUME Inv, [Next]_vars PROVE [Ledger!Next]_(Ledger!vars)
    OBVIOUS
  <1> USE NoneAssumption
  <1>0. TypeOK /\ RowInv /\ CycleInv
    BY DEF Inv, LeaseInv
  <1>1. ASSUME NEW j \in Jobs, Enqueue(j) PROVE [Ledger!Next]_(Ledger!vars)
    <2>1. /\ Phase(j) = "absent"
          /\ [i \in Jobs |-> Phase(i)]' = [[i \in Jobs |-> Phase(i)] EXCEPT ![j] = "open"]
      BY <1>0, <1>1 DEF Enqueue, Phase, TypeOK
    <2>2. UNCHANGED <<owner, Expired, mine>>
      BY <1>0, <1>1 DEF Enqueue, Expired, TypeOK
    <2>3. Ledger!Submit(j)
      BY <2>1, <2>2 DEF Ledger!Submit
    <2> QED BY <2>3 DEF Ledger!Next
  <1>2. ASSUME NEW o \in Owners, NEW j \in Jobs, ClaimNext(o, j)
        PROVE  [Ledger!Next]_(Ledger!vars)
    <2>1. Claimable(j) /\ mine[o] = None
      BY <1>0, <1>2 DEF ClaimNext, NextClaimable, CycleInv
    <2>2. /\ Phase(j) = "open"
          /\ UNCHANGED [i \in Jobs |-> Phase(i)]
      BY <1>0, <1>2, <2>1 DEF ClaimNext, Claimable, Phase, TypeOK
    <2>3. owner[j] = None \/ j \in Expired
      BY <1>0, <2>1 DEF Claimable, Expired, RowInv
    <2>4. Expired' = Expired \ {j}
      BY <1>0, <1>2, TtlAssumption DEF ClaimNext, Expired, TypeOK
    <2>5. Ledger!Grant(j, o)
      BY <1>2, <2>1, <2>2, <2>3, <2>4 DEF Ledger!Grant, ClaimNext
    <2> QED BY <2>5 DEF Ledger!Next
  <1>3. ASSUME NEW o \in Owners, FindNoJob(o) \/ Crash(o)
        PROVE  [Ledger!Next]_(Ledger!vars)
    <2>1. UNCHANGED <<[i \in Jobs |-> Phase(i)], owner, Expired>>
      BY <1>3 DEF FindNoJob, Crash, jobVars, Phase, Expired
    <2>2. mine' = [mine EXCEPT ![o] = None]
      BY <1>3 DEF FindNoJob, Crash, EndCycle
    <2> QED BY <2>1, <2>2 DEF Ledger!Next, Ledger!Abandon, Ledger!Stop
  <1>4. ASSUME NEW o \in Owners, Complete(o) \/ Fail(o)
        PROVE  [Ledger!Next]_(Ledger!vars)
    BY <1>0, <1>4, SettleRefines DEF Complete, Fail, EndCycle, CycleInv, TypeOK
  <1>5. ASSUME NEW o \in Owners, Confirm(o) PROVE [Ledger!Next]_(Ledger!vars)
    <2>1. CASE status[mine[o]] = "COMPLETED"
      <3>1. UNCHANGED <<[i \in Jobs |-> Phase(i)], owner, Expired>>
        BY <1>5, <2>1 DEF Confirm, jobVars, Phase, Expired
      <3>2. mine' = [mine EXCEPT ![o] = None]
        BY <1>5 DEF Confirm, EndCycle
      <3> QED BY <3>1, <3>2 DEF Ledger!Next, Ledger!Abandon, Ledger!Stop
    <2>2. CASE status[mine[o]] # "COMPLETED"
      BY <1>0, <1>5, <2>2, SettleRefines DEF Confirm, EndCycle, CycleInv, TypeOK
    <2> QED BY <2>1, <2>2
  <1>6. ASSUME NEW o \in Owners, LoseLease(o) \/ Close(o)
        PROVE  [Ledger!Next]_(Ledger!vars)
    BY <1>6, RequeueRefines DEF LoseLease, Close, cycleVars
  <1>7. ASSUME NEW o \in Owners, BeatJob(o) PROVE [Ledger!Next]_(Ledger!vars)
    <2>1. UNCHANGED <<[i \in Jobs |-> Phase(i)], owner, mine>>
      BY <1>7 DEF BeatJob, Phase
    <2>2. Expired' = Expired
      BY <1>0, <1>7, TtlAssumption DEF BeatJob, Expired, TypeOK
    <2> QED BY <2>1, <2>2 DEF Ledger!vars
  <1>8. ASSUME Tick PROVE [Ledger!Next]_(Ledger!vars)
    <2>1. UNCHANGED <<[i \in Jobs |-> Phase(i)], owner, mine>>
      BY <1>8 DEF Tick, Phase
    <2>2. Expired \subseteq Expired'
      BY <1>0, <1>8, TtlAssumption DEF Tick, Less, Expired, TypeOK
    <2>3. Expired' \subseteq {i \in Jobs : owner[i] # None}
      BY <1>0, <1>8 DEF Tick, Expired, RowInv
    <2>4. Expired' = Expired \cup Expired'
      BY <2>2
    <2>5. Ledger!Lapse
      BY <2>1, <2>3, <2>4 DEF Ledger!Lapse
    <2> QED BY <2>5 DEF Ledger!Next
  <1>9. CASE UNCHANGED <<status, owner, left, mine>>
    <2>1. UNCHANGED <<[i \in Jobs |-> Phase(i)], owner, Expired, mine>>
      BY <1>9 DEF Phase, Expired
    <2> QED BY <2>1 DEF Ledger!vars
  <1> QED
    BY <1>1, <1>2, <1>3, <1>4, <1>5, <1>6, <1>7, <1>8, <1>9
    DEF Next, Work, vars, jobVars, cycleVars, Start, BeginCycle, ReadClaimed,
        BeatService, Stall, Resume

\* The job table implements the ledger: grants are exclusive, taken over only
\* after they lapsed, and settled once, by the worker that holds them.
THEOREM ServiceImplementsLedger == Spec => LedgerSpec
  <1>1. Init => Ledger!Init
    BY DEF Init, Ledger!Init, Phase, Expired
  <1> QED BY <1>1, LedgerStep, Invariance, PTL DEF Spec, Ledger!Spec, LedgerSpec
=============================================================================
