---------------------------- MODULE RemoteRunner ----------------------------
(***************************************************************************)
(* RemoteRunnerQueue (lib/runtime/remote-runner.mjs) over the table        *)
(* remote_runner_jobs: workers claim a job under a lease, renew it and     *)
(* submit its result with the token and generation they were given. Each   *)
(* statement commits by itself; a worker may stall between any two, and    *)
(* another worker may then run under the same runner id.                   *)
(* (TakeAnyway and KeepsToken are faulty forms, used by no action.)        *)
(***************************************************************************)
EXTENDS Naturals

CONSTANTS
  Workers,         \* processes that work as runners
  RunnerOf,        \* the runner_id each one claims with
  RunnerJobs,
  RunnerTtl,
  MaxRunnerTime,   \* the clock stops here
  MaxTokens,       \* and the tokens run out
  None

ASSUME RunnerTimeAssumption ==
  RunnerTtl \in Nat \ {0} /\ MaxRunnerTime \in Nat /\ MaxTokens \in Nat
ASSUME RunnerAssumption ==
  None \notin Workers \cup RunnerJobs \cup {RunnerOf[w] : w \in Workers}

VARIABLES
  now,
  status,          \* "absent", "PENDING", "LEASED" or "COMPLETED", by job
  generation, token, runner, expires, updated,   \* columns, by job
  drawn,           \* tokens idFactory has given out
  call,            \* each worker's call, between its statements
  ticket,          \* what each worker's last claim returned
  leased,          \* by job: the worker whose UPDATE leased it last
  overtaken,       \* <<worker, job>>: its claim returned another's lease
  reporter         \* by job: the worker whose result was accepted

row == <<generation, token, runner, expires, updated>>
runnerVars == <<now, status, row, drawn, call, ticket, leased, overtaken, reporter>>

Call(op, job, at, t, g) == [op |-> op, job |-> job, at |-> at, token |-> t, generation |-> g]
Idle == Call("none", None, 0, 0, 0)
NoTicket == [job |-> None, token |-> 0, generation |-> 0]

Calls ==
  [op : {"none", "take", "read", "beat", "submit"}, job : RunnerJobs \cup {None},
   at : 0..now, token : 0..drawn, generation : Nat]

RunnerTypeOK ==
  /\ now \in 0..MaxRunnerTime /\ drawn \in Nat
  /\ status \in [RunnerJobs -> {"absent", "PENDING", "LEASED", "COMPLETED"}]
  /\ generation \in [RunnerJobs -> Nat] /\ token \in [RunnerJobs -> 0..drawn]
  /\ runner \in [RunnerJobs -> {RunnerOf[w] : w \in Workers} \cup {None}]
  /\ expires \in [RunnerJobs -> Nat] /\ updated \in [RunnerJobs -> Nat]
  /\ leased \in [RunnerJobs -> Workers \cup {None}]
  /\ reporter \in [RunnerJobs -> Workers \cup {None}]
  /\ overtaken \subseteq Workers \X RunnerJobs
  /\ call \in [Workers -> Calls]
  /\ ticket \in [Workers -> [job : RunnerJobs \cup {None}, token : 0..drawn, generation : Nat]]

RunnerInit ==
  /\ now = 0 /\ drawn = 0
  /\ status = [j \in RunnerJobs |-> "absent"]
  /\ generation = [j \in RunnerJobs |-> 0] /\ token = [j \in RunnerJobs |-> 0]
  /\ runner = [j \in RunnerJobs |-> None]
  /\ expires = [j \in RunnerJobs |-> 0] /\ updated = [j \in RunnerJobs |-> 0]
  /\ call = [w \in Workers |-> Idle] /\ ticket = [w \in Workers |-> NoTicket]
  /\ leased = [j \in RunnerJobs |-> None] /\ overtaken = {}
  /\ reporter = [j \in RunnerJobs |-> None]

-----------------------------------------------------------------------------
CallTo(w, c) == call' = [call EXCEPT ![w] = c]

Dispatch(j) ==
  /\ status[j] = "absent" /\ drawn < MaxTokens
  /\ status' = [status EXCEPT ![j] = "PENDING"]
  /\ drawn' = drawn + 1
  /\ token' = [token EXCEPT ![j] = drawn + 1]
  /\ updated' = [updated EXCEPT ![j] = now]
  /\ UNCHANGED <<now, generation, runner, expires, call, ticket, leased, overtaken, reporter>>

Expired(j, t) == status[j] = "LEASED" /\ expires[j] <= t
Claimable(j, t) == status[j] = "PENDING" \/ Expired(j, t)

\* claim: the first statement selects by updated_at, at the time read before.
SelectJob(w, j) ==
  /\ call[w] = Idle /\ drawn < MaxTokens
  /\ Claimable(j, now)
  /\ \A k \in RunnerJobs : Claimable(k, now) => updated[j] <= updated[k]
  /\ drawn' = drawn + 1
  /\ CallTo(w, Call("take", j, now, drawn + 1, 0))
  /\ UNCHANGED <<now, status, row, ticket, leased, overtaken, reporter>>

TakeAnyway(c) == TRUE
StillClaimable(c) == Claimable(c.job, c.at)

KeepsToken(j, t) == <<generation[j], token[j]>>
Rotated(j, t) == IF status[j] = "LEASED" THEN <<generation[j] + 1, t>>
                 ELSE <<generation[j], token[j]>>

\* The second is guarded by the same condition.
TakeJob(w) ==
  LET c == call[w]  j == call[w].job
  IN /\ c.op = "take"
     /\ IF StillClaimable(c)
        THEN /\ generation' = [generation EXCEPT ![j] = Rotated(j, c.token)[1]]
             /\ token' = [token EXCEPT ![j] = Rotated(j, c.token)[2]]
             /\ status' = [status EXCEPT ![j] = "LEASED"]
             /\ runner' = [runner EXCEPT ![j] = RunnerOf[w]]
             /\ expires' = [expires EXCEPT ![j] = c.at + RunnerTtl]
             /\ updated' = [updated EXCEPT ![j] = now]
             /\ leased' = [leased EXCEPT ![j] = w]
             /\ CallTo(w, Call("read", j, 0, 0, 0))
        ELSE /\ CallTo(w, Idle)
             /\ UNCHANGED <<status, row, leased>>
     /\ UNCHANGED <<now, drawn, ticket, overtaken, reporter>>

\* The third reads the row back, whoever has it by now.
ReadTicket(w) ==
  /\ call[w].op = "read"
  /\ LET j == call[w].job
     IN /\ ticket' = [ticket EXCEPT ![w] =
             [job |-> j, token |-> token[j], generation |-> generation[j]]]
        /\ overtaken' = IF leased[j] = w THEN overtaken \ {<<w, j>>}
                        ELSE overtaken \cup {<<w, j>>}
  /\ CallTo(w, Idle)
  /\ UNCHANGED <<now, status, row, drawn, leased, reporter>>

\* heartbeat goes by the row's own token, not by the worker's ticket.
StartHeartbeat(w) ==
  /\ call[w] = Idle /\ ticket[w].job # None
  /\ LET j == ticket[w].job
     IN /\ status[j] = "LEASED" /\ runner[j] = RunnerOf[w] /\ expires[j] > now
        /\ CallTo(w, Call("beat", j, now, token[j], generation[j]))
  /\ UNCHANGED <<now, status, row, drawn, ticket, leased, overtaken, reporter>>

Owned(w, c, t) ==
  /\ runner[c.job] = RunnerOf[w]
  /\ token[c.job] = c.token /\ generation[c.job] = c.generation
  /\ status[c.job] = "LEASED" /\ expires[c.job] > t

HeartbeatJob(w) ==
  LET c == call[w]
  IN /\ c.op = "beat"
     /\ IF Owned(w, c, c.at)
        THEN /\ expires' = [expires EXCEPT ![c.job] = c.at + RunnerTtl]
             /\ updated' = [updated EXCEPT ![c.job] = now]
        ELSE UNCHANGED <<expires, updated>>
     /\ CallTo(w, Idle)
     /\ UNCHANGED <<now, status, generation, token, runner, drawn, ticket, leased, overtaken, reporter>>

\* submit: the checks of the row that was read; each failure throws.
StartSubmit(w) ==
  /\ call[w] = Idle /\ ticket[w].job # None
  /\ Owned(w, ticket[w], now)
  /\ CallTo(w, Call("submit", ticket[w].job, 0, 0, 0))
  /\ UNCHANGED <<now, status, row, drawn, ticket, leased, overtaken, reporter>>

\* completeRemoteRunnerJob, which checks them again.
CompleteJob(w) ==
  /\ call[w].op = "submit"
  /\ LET j == call[w].job
     IN IF Owned(w, ticket[w], now)
        THEN /\ status' = [status EXCEPT ![j] = "COMPLETED"]
             /\ reporter' = [reporter EXCEPT ![j] = w]
             /\ updated' = [updated EXCEPT ![j] = now]
             /\ expires' = [expires EXCEPT ![j] = 0]
        ELSE UNCHANGED <<status, reporter, updated, expires>>
  /\ CallTo(w, Idle)
  /\ UNCHANGED <<now, generation, token, runner, drawn, ticket, leased, overtaken>>

WorkerDies(w) ==
  /\ call[w] # Idle \/ ticket[w] # NoTicket
  /\ CallTo(w, Idle)
  /\ ticket' = [ticket EXCEPT ![w] = NoTicket]
  /\ UNCHANGED <<now, status, row, drawn, leased, overtaken, reporter>>

RunnerTick ==
  /\ now < MaxRunnerTime
  /\ now' = now + 1
  /\ UNCHANGED <<status, row, drawn, call, ticket, leased, overtaken, reporter>>

RunnerNext ==
  \/ \E j \in RunnerJobs : Dispatch(j)
  \/ \E w \in Workers :
       \/ \E j \in RunnerJobs : SelectJob(w, j)
       \/ TakeJob(w) \/ ReadTicket(w) \/ StartHeartbeat(w) \/ HeartbeatJob(w)
       \/ StartSubmit(w) \/ CompleteJob(w) \/ WorkerDies(w)
  \/ RunnerTick

RunnerSpec == RunnerInit /\ [][RunnerNext]_runnerVars

-----------------------------------------------------------------------------
(* The result of a job comes from the worker that leased it last: a worker   *)
(* that was replaced reports in vain. One exception: a worker so slow that   *)
(* another under its own runner id replaced it before its claim returned     *)
(* was handed the other's token.                                             *)
ResultFenced ==
  \A j \in RunnerJobs : reporter[j] # None =>
    \/ reporter[j] = leased[j]
    \/ /\ RunnerOf[reporter[j]] = RunnerOf[leased[j]]
       /\ <<reporter[j], j>> \in overtaken

(* A result, once accepted, is never replaced and its job never handed out   *)
(* again, although claim and submit look at the row before they write it.    *)
ResultIsFinal ==
  [][\A j \in RunnerJobs : status[j] = "COMPLETED" =>
       status'[j] = "COMPLETED" /\ reporter'[j] = reporter[j] /\ leased'[j] = leased[j]]_runnerVars

(* No worker takes a job from another whose lease still runs.                *)
LeaseNotStolen ==
  [][\A j \in RunnerJobs : (status[j] = "LEASED" /\ leased'[j] # leased[j]) => expires[j] <= now]_runnerVars

(* What a worker that holds a job may rely on, both of the above: nobody      *)
(* takes the job while its lease runs, nor ever once its result is in.        *)
LeaseRespected == ResultIsFinal /\ LeaseNotStolen
=============================================================================
