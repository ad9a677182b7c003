--------------------------- MODULE RuntimeService ---------------------------
(***************************************************************************)
(* The durable job loop of lib/runtime/service.mjs over the runtime_jobs   *)
(* and daemon_leases tables of lib/runtime/sqlite-store.mjs.               *)
(*                                                                         *)
(* Any number of service processes share one database.  A process is named *)
(* by its owner id, a random UUID: a restart is another owner.  Every SQL  *)
(* statement is one atomic step, and so is the code between two awaits of  *)
(* one process unless it holds several statements, which are then several  *)
(* steps.  Time is relative: "left" is how many ticks a lease still has,   *)
(* so expires_at > now is left > 0 and expires_at <= now is left = 0.      *)
(***************************************************************************)
EXTENDS Naturals, FiniteSets

CONSTANTS
  Owners,     \* owner ids of the service processes
  Jobs,       \* job ids; numbers, since ORDER BY breaks ties on job_id
  LeaseTtl,   \* leaseTtlMs, in ticks
  MaxFaults,  \* bound on crashes, stalls and shutdowns together
  None        \* SQL NULL, and the job of a process that has none

ASSUME JobsAssumption == Jobs \subseteq Nat
ASSUME TtlAssumption  == LeaseTtl \in Nat \ {0} /\ MaxFaults \in Nat
ASSUME NoneAssumption == None \notin Owners /\ None \notin Jobs

VARIABLES
  lease,      \* the daemon_leases row: [owner, left]; owner None: no row
  status, owner, left, attempts, created,  \* columns of runtime_jobs
  pc,         \* what each process does next
  mine,       \* the job a process took in this cycle
  seen,       \* the attempts count its handler was given
  leaseLost,  \* the leaseLost flag of runOnce
  closed,     \* #closed
  stalled,    \* processes that are not scheduled, or wait in an await
  svcFresh,   \* ticks left of the service lease by a process's own reckoning
  jobFresh,   \* the same for its job lease
  faults      \* how much of MaxFaults is spent

jobVars   == <<status, owner, left, attempts, created>>
cycleVars == <<mine, seen, leaseLost, jobFresh>>
vars == <<lease, status, owner, left, attempts, created, pc, mine, seen,
          leaseLost, closed, stalled, svcFresh, jobFresh, faults>>

Status == {"ABSENT", "PENDING", "RUNNING", "COMPLETED", "FAILED"}
Pc     == {"down", "idle", "reconciling", "claimed", "working", "beating",
           "confirming"}

TypeOK ==
  /\ lease \in [owner : Owners \cup {None}, left : 0..LeaseTtl]
  /\ status \in [Jobs -> Status]
  /\ owner \in [Jobs -> Owners \cup {None}]
  /\ left \in [Jobs -> 0..LeaseTtl]
  /\ attempts \in [Jobs -> 0..2]
  /\ created \in [Jobs -> Nat]
  /\ pc \in [Owners -> Pc]
  /\ mine \in [Owners -> Jobs \cup {None}]
  /\ seen \in [Owners -> 0..2]
  /\ leaseLost \in [Owners -> BOOLEAN]
  /\ closed \in [Owners -> BOOLEAN]
  /\ stalled \in SUBSET Owners
  /\ svcFresh \in [Owners -> 0..LeaseTtl]
  /\ jobFresh \in [Owners -> 0..LeaseTtl]
  /\ faults \in 0..MaxFaults

Init ==
  /\ lease = [owner |-> None, left |-> 0]
  /\ status = [j \in Jobs |-> "ABSENT"]
  /\ owner = [j \in Jobs |-> None]
  /\ left = [j \in Jobs |-> 0]
  /\ attempts = [j \in Jobs |-> 0]
  /\ created = [j \in Jobs |-> 0]
  /\ pc = [o \in Owners |-> "down"]
  /\ mine = [o \in Owners |-> None]
  /\ seen = [o \in Owners |-> 0]
  /\ leaseLost = [o \in Owners |-> FALSE]
  /\ closed = [o \in Owners |-> FALSE]
  /\ stalled = {}
  /\ svcFresh = [o \in Owners |-> 0]
  /\ jobFresh = [o \in Owners |-> 0]
  /\ faults = 0

-----------------------------------------------------------------------------
(* The SQL statements.  Each says how the rows change; a statement whose     *)
(* WHERE clause selects no row leaves them as they are.  StealLease,         *)
(* ExtendLease, AnyRunningRow, ClaimLeased, ClaimOnlyNew, CountFreshClaim    *)
(* and FailQuietly are faulty forms of the definition that follows each, to  *)
(* show that the properties below notice them; no action uses them.          *)

Active(o) == pc[o] # "down" /\ o \notin stalled

HoldsLease(o) == lease.owner = o /\ lease.left > 0

\* acquireLease inserts the row, or takes it over from itself or when expired.
StealLease(o) == TRUE
LeaseFree(o) == lease.owner = None \/ lease.owner = o \/ lease.left = 0

\* renewLease restarts the TTL; it does not add to it.
ExtendLease(l) == [l EXCEPT !.left = @ + LeaseTtl]
RenewLease(l) == [l EXCEPT !.left = LeaseTtl]

\* The row a completeJob or failJob of owner o may change.
AnyRunningRow(j, o) == status[j] = "RUNNING"
OwnedRow(j, o) == status[j] = "RUNNING" /\ owner[j] = o

\* completeJob and failJob without retry: they differ in the final status.
SettleJob(j, o, final) ==
  IF OwnedRow(j, o)
  THEN /\ status' = [status EXCEPT ![j] = final]
       /\ owner' = [owner EXCEPT ![j] = None]
       /\ left' = [left EXCEPT ![j] = 0]
       /\ UNCHANGED <<attempts, created>>
  ELSE UNCHANGED jobVars

\* requeueRunningJobs.
Requeue(o) ==
  /\ status' = [j \in Jobs |-> IF OwnedRow(j, o) THEN "PENDING" ELSE status[j]]
  /\ owner' = [j \in Jobs |-> IF OwnedRow(j, o) THEN None ELSE owner[j]]
  /\ left' = [j \in Jobs |-> IF OwnedRow(j, o) THEN 0 ELSE left[j]]
  /\ UNCHANGED <<attempts, created>>

\* releaseLease: deletes the row whoever's turn it is, if it is o's.
Release(o) ==
  lease' = IF lease.owner = o THEN [owner |-> None, left |-> 0] ELSE lease

\* Rows claimNextJob may take: new ones, and those whose lease ran out.
ClaimLeased(j) == status[j] \in {"PENDING", "RUNNING"}
ClaimOnlyNew(j) == status[j] = "PENDING"
Claimable(j) == status[j] = "PENDING" \/ (status[j] = "RUNNING" /\ left[j] = 0)

\* ORDER BY created_at, job_id.
Before(i, j) == created[i] < created[j] \/ (created[i] = created[j] /\ i <= j)

NextClaimable(j) == Claimable(j) /\ \A i \in Jobs : Claimable(i) => Before(j, i)

\* attempts + 1, of which only "more than one" matters.
CountFreshClaim(j) == IF status[j] = "PENDING" /\ attempts[j] < 2
                      THEN attempts[j] + 1 ELSE attempts[j]
CountClaim(j) == IF attempts[j] = 2 THEN 2 ELSE attempts[j] + 1

\* enqueueJob, by a route, an operator or the scheduler.  The new row is not
\* older than any other, and may be of the same millisecond.  A job id that
\* exists is ignored (INSERT OR IGNORE), which changes nothing.
Enqueue(j) ==
  /\ status[j] = "ABSENT"
  /\ status' = [status EXCEPT ![j] = "PENDING"]
  /\ \E c \in 1..Cardinality(Jobs) :
       /\ \A i \in Jobs : created[i] <= c
       /\ created' = [created EXCEPT ![j] = c]
  /\ UNCHANGED <<lease, owner, left, attempts, pc, mine, seen, leaseLost,
                 closed, stalled, svcFresh, jobFresh, faults>>

-----------------------------------------------------------------------------
(* The steps of a service process.                                           *)

\* What the end of a cycle leaves behind: a closed service's loop stops.
EndCycle(o) ==
  /\ pc' = [pc EXCEPT ![o] = IF closed[o] THEN "down" ELSE "idle"]
  /\ mine' = [mine EXCEPT ![o] = None]
  /\ seen' = [seen EXCEPT ![o] = 0]
  /\ leaseLost' = [leaseLost EXCEPT ![o] = FALSE]
  /\ jobFresh' = [jobFresh EXCEPT ![o] = 0]

\* No row names o: its id is as good as a UUID never used before.
Unused(o) == lease.owner # o /\ \A j \in Jobs : owner[j] # o

\* The constructor: acquireLease, or it throws and there is no service.
Start(o) ==
  /\ pc[o] = "down"
  /\ Unused(o)
  /\ LeaseFree(o)
  /\ lease' = [owner |-> o, left |-> LeaseTtl]
  /\ svcFresh' = [svcFresh EXCEPT ![o] = LeaseTtl]
  /\ pc' = [pc EXCEPT ![o] = "idle"]
  /\ closed' = [closed EXCEPT ![o] = FALSE]
  /\ UNCHANGED <<jobVars, cycleVars, stalled, faults>>

\* runOnce renews the lease, then awaits reconcile and drainPending.
BeginCycle(o) ==
  /\ Active(o) /\ pc[o] = "idle"
  /\ HoldsLease(o)
  /\ lease' = RenewLease(lease)
  /\ svcFresh' = [svcFresh EXCEPT ![o] = LeaseTtl]
  /\ pc' = [pc EXCEPT ![o] = "reconciling"]
  /\ UNCHANGED <<jobVars, cycleVars, closed, stalled, faults>>

\* renewLease changed no row: runOnce throws, and the command's finally
\* closes the service.
LoseLease(o) ==
  /\ Active(o) /\ pc[o] = "idle"
  /\ ~HoldsLease(o)
  /\ Requeue(o)
  /\ Release(o)
  /\ pc' = [pc EXCEPT ![o] = "down"]
  /\ closed' = [closed EXCEPT ![o] = TRUE]
  /\ svcFresh' = [svcFresh EXCEPT ![o] = 0]
  /\ UNCHANGED <<cycleVars, stalled, faults>>

\* claimNextJob after the awaits; it asks nothing of the service lease.
ClaimNext(o, j) ==
  /\ Active(o) /\ pc[o] = "reconciling"
  /\ NextClaimable(j)
  /\ status' = [status EXCEPT ![j] = "RUNNING"]
  /\ owner' = [owner EXCEPT ![j] = o]
  /\ left' = [left EXCEPT ![j] = LeaseTtl]
  /\ attempts' = [attempts EXCEPT ![j] = CountClaim(j)]
  /\ mine' = [mine EXCEPT ![o] = j]
  /\ jobFresh' = [jobFresh EXCEPT ![o] = LeaseTtl]
  /\ pc' = [pc EXCEPT ![o] = "claimed"]
  /\ UNCHANGED <<lease, created, seen, leaseLost, closed, stalled, svcFresh,
                 faults>>

FindNoJob(o) ==
  /\ Active(o) /\ pc[o] = "reconciling"
  /\ \A j \in Jobs : ~Claimable(j)
  /\ EndCycle(o)
  /\ UNCHANGED <<lease, jobVars, closed, stalled, svcFresh, faults>>

\* claimNextJob reads the row back after its COMMIT; onJob is called with it.
ReadClaimed(o) ==
  /\ Active(o) /\ pc[o] = "claimed"
  /\ seen' = [seen EXCEPT ![o] = attempts[mine[o]]]
  /\ pc' = [pc EXCEPT ![o] = "working"]
  /\ UNCHANGED <<lease, jobVars, mine, leaseLost, closed, stalled, svcFresh,
                 jobFresh, faults>>

\* The heartbeat timer fires while onJob is awaited: renewLease ...
BeatService(o) ==
  /\ Active(o) /\ pc[o] = "working"
  /\ IF HoldsLease(o)
     THEN /\ lease' = RenewLease(lease)
          /\ svcFresh' = [svcFresh EXCEPT ![o] = LeaseTtl]
          /\ UNCHANGED leaseLost
     ELSE /\ leaseLost' = [leaseLost EXCEPT ![o] = TRUE]
          /\ UNCHANGED <<lease, svcFresh>>
  /\ pc' = [pc EXCEPT ![o] = "beating"]
  /\ UNCHANGED <<jobVars, mine, seen, closed, stalled, jobFresh, faults>>

\* ... then renewJobLease, which an expired lease refuses even unclaimed.
BeatJob(o) ==
  /\ Active(o) /\ pc[o] = "beating"
  /\ IF OwnedRow(mine[o], o) /\ left[mine[o]] > 0
     THEN /\ left' = [left EXCEPT ![mine[o]] = LeaseTtl]
          /\ jobFresh' = [jobFresh EXCEPT ![o] = LeaseTtl]
          /\ UNCHANGED leaseLost
     ELSE /\ leaseLost' = [leaseLost EXCEPT ![o] = TRUE]
          /\ UNCHANGED <<left, jobFresh>>
  /\ pc' = [pc EXCEPT ![o] = "working"]
  /\ UNCHANGED <<lease, status, owner, attempts, created, mine, seen, closed,
                 stalled, svcFresh, faults>>

\* onJob resolves and leaseLost is false: completeJob.
Complete(o) ==
  /\ Active(o) /\ pc[o] = "working" /\ ~leaseLost[o]
  /\ SettleJob(mine[o], o, "COMPLETED")
  /\ pc' = [pc EXCEPT ![o] = "confirming"]
  /\ jobFresh' = [jobFresh EXCEPT ![o] = 0]
  /\ UNCHANGED <<lease, mine, seen, leaseLost, closed, stalled, svcFresh,
                 faults>>

\* completeJob's getJob; anything but COMPLETED throws, and the catch calls
\* failJob.
Confirm(o) ==
  /\ Active(o) /\ pc[o] = "confirming"
  /\ IF status[mine[o]] = "COMPLETED"
     THEN UNCHANGED jobVars
     ELSE SettleJob(mine[o], o, "FAILED")
  /\ EndCycle(o)
  /\ UNCHANGED <<lease, closed, stalled, svcFresh, faults>>

\* (A catch that swallowed the error would be FailQuietly.)
FailQuietly(o) ==
  /\ Active(o) /\ pc[o] = "working"
  /\ EndCycle(o)
  /\ UNCHANGED <<lease, jobVars, closed, stalled, svcFresh, faults>>

\* onJob rejects, or resolves with leaseLost set: failJob.
Fail(o) ==
  /\ Active(o) /\ pc[o] = "working"
  /\ SettleJob(mine[o], o, "FAILED")
  /\ EndCycle(o)
  /\ UNCHANGED <<lease, closed, stalled, svcFresh, faults>>

-----------------------------------------------------------------------------
(* What happens to a process.                                                *)

Fault == faults < MaxFaults /\ faults' = faults + 1

\* close(): between cycles the process then ends; called while runOnce awaits,
\* the cycle goes on, since #closed is only read when a cycle begins.
Close(o) ==
  /\ Fault
  /\ Active(o) /\ ~closed[o] /\ pc[o] \in {"idle", "reconciling", "working"}
  /\ Requeue(o)
  /\ Release(o)
  /\ closed' = [closed EXCEPT ![o] = TRUE]
  /\ pc' = [pc EXCEPT ![o] = IF @ = "idle" THEN "down" ELSE @]
  /\ svcFresh' = [svcFresh EXCEPT ![o] = 0]
  /\ jobFresh' = [jobFresh EXCEPT ![o] = 0]
  /\ UNCHANGED <<mine, seen, leaseLost, stalled>>

\* The process dies: the rows stay, its memory does not.
Crash(o) ==
  /\ Fault
  /\ pc[o] # "down"
  /\ pc' = [pc EXCEPT ![o] = "down"]
  /\ mine' = [mine EXCEPT ![o] = None]
  /\ seen' = [seen EXCEPT ![o] = 0]
  /\ leaseLost' = [leaseLost EXCEPT ![o] = FALSE]
  /\ stalled' = stalled \ {o}
  /\ svcFresh' = [svcFresh EXCEPT ![o] = 0]
  /\ jobFresh' = [jobFresh EXCEPT ![o] = 0]
  /\ UNCHANGED <<lease, jobVars, closed>>

\* A blocked event loop, a suspended host, or an await of reconcile or
\* drainPending, which no timer covers, that outlasts the lease.
Stall(o) ==
  /\ Fault
  /\ Active(o)
  /\ stalled' = stalled \cup {o}
  /\ UNCHANGED <<lease, jobVars, pc, cycleVars, closed, svcFresh>>

Resume(o) ==
  /\ o \in stalled
  /\ stalled' = stalled \ {o}
  /\ UNCHANGED <<lease, jobVars, pc, cycleVars, closed, svcFresh, faults>>

\* A process that is not stalled reaches its next statement, or its heartbeat,
\* before a lease it still counts on runs out.
Timely(o) == Active(o) => svcFresh[o] # 1 /\ jobFresh[o] # 1

Less(n) == IF n = 0 THEN 0 ELSE n - 1

Tick ==
  /\ \A o \in Owners : Timely(o)
  /\ lease' = [lease EXCEPT !.left = Less(@)]
  /\ left' = [j \in Jobs |-> Less(left[j])]
  /\ svcFresh' = [o \in Owners |-> Less(svcFresh[o])]
  /\ jobFresh' = [o \in Owners |-> Less(jobFresh[o])]
  /\ UNCHANGED <<status, owner, attempts, created, pc, mine, seen, leaseLost,
                 closed, stalled, faults>>

-----------------------------------------------------------------------------
Work(o) ==
  \/ BeginCycle(o)
  \/ LoseLease(o)
  \/ \E j \in Jobs : ClaimNext(o, j)
  \/ FindNoJob(o)
  \/ ReadClaimed(o)
  \/ BeatJob(o)
  \/ Complete(o)
  \/ Confirm(o)
  \/ Fail(o)

Next ==
  \/ \E j \in Jobs : Enqueue(j)
  \/ \E o \in Owners : \/ Start(o)
                       \/ Work(o)
                       \/ BeatService(o)
                       \/ Close(o)
                       \/ Crash(o)
                       \/ Stall(o)
                       \/ Resume(o)
  \/ Tick

Spec == Init /\ [][Next]_vars

(* A process that runs takes its next step, onJob returns in the end however *)
(* often the heartbeat interrupts the wait, somebody starts a service when   *)
(* none holds the lease, and time passes.                                    *)
Fairness ==
  /\ WF_vars(Tick)
  /\ WF_vars(\E o \in Owners : Start(o))
  /\ \A o \in Owners : /\ WF_vars(Work(o))
                       /\ SF_vars(Complete(o) \/ Fail(o))

FairSpec == Spec /\ Fairness

-----------------------------------------------------------------------------
(* Properties.                                                               *)

\* o believes it is inside onJob.
InHandler(o) == pc[o] \in {"working", "beating"}

\* Two services never run one job while both job leases are still running by
\* their own reckoning: a takeover waits until the earlier worker has gone a
\* whole TTL without a heartbeat.  (claimNextJob, renewJobLease)
OneFreshWorker ==
  \A o, p \in Owners :
    o # p /\ jobFresh[o] > 0 /\ jobFresh[p] > 0 => mine[o] # mine[p]

\* The service lease has the same promise: of two running services at most
\* one can still count on its own last renewal.  (acquireLease, renewLease)
OneFreshService ==
  \A o, p \in Owners : svcFresh[o] > 0 /\ svcFresh[p] > 0 => o = p

\* A RUNNING row names a process that is working on that job, or one that is
\* gone: no path through runOnce drops a claimed job and keeps polling, which
\* would hide the job behind a live owner.  (runOnce, close)
NoForgottenJob ==
  \A j \in Jobs, o \in Owners :
    OwnedRow(j, o) /\ pc[o] # "down" => mine[o] = j

\* Of several handlers inside one job at most one was told it is the first
\* attempt; createRuntimeJobHandler relies on attempts > 1 to take its
\* recovery path.  (claimNextJob)
RerunIsFlagged ==
  \A o, p \in Owners :
    o # p /\ mine[o] = mine[p] /\ InHandler(o) /\ InHandler(p)
      => ~(seen[o] = 1 /\ seen[p] = 1)

\* Every enqueued job is settled, through crashes, stalls and shutdowns.
JobsSettle ==
  \A j \in Jobs : status[j] = "PENDING" ~> status[j] \in {"COMPLETED", "FAILED"}

\* The job table seen as JobLedger sees it.
Phase(j) ==
  IF status[j] = "ABSENT" THEN "absent"
  ELSE IF status[j] \in {"PENDING", "RUNNING"} THEN "open" ELSE "settled"

Expired == {j \in Jobs : status[j] = "RUNNING" /\ left[j] = 0}

Ledger == INSTANCE JobLedger WITH
  Workers <- Owners,
  phase   <- [j \in Jobs |-> Phase(j)],
  holder  <- owner,
  lapsed  <- Expired,
  doing   <- mine

\* The job table implements the ledger: one grant at a time, taken over only
\* after it lapsed, and settled once, by the worker that holds it, however
\* many stale workers finish late.  (claimNextJob, completeJob, failJob)
LedgerSpec == Ledger!Spec
=============================================================================
