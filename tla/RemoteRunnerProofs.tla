------------------------- MODULE RemoteRunnerProofs -------------------------
(***************************************************************************)
(* Theorems about RemoteRunner, for all workers, runner ids, jobs and      *)
(* bounds: however late a claim, a heartbeat or a submission is, a job's   *)
(* result comes from who leased it last, once.                             *)
(***************************************************************************)
EXTENDS RemoteRunner, TLAPS

Held == {"LEASED", "COMPLETED"}

(* Who holds a row, and what calls and tickets may still say about it.       *)
HolderInv ==
  \A j \in RunnerJobs : status[j] \in Held =>
    leased[j] \in Workers /\ runner[j] = RunnerOf[leased[j]]

CallInv ==
  \A w \in Workers :
    /\ call[w].op # "none" => call[w].job \in RunnerJobs
    /\ call[w].op = "read" => status[call[w].job] \in Held
    /\ call[w].op = "submit" => ticket[w].job = call[w].job

(* A ticket whose generation is the row's was given for its last lease.      *)
TicketFor(w, j) ==
  ticket[w].job = j =>
    /\ status[j] \in Held
    /\ ticket[w].generation <= generation[j]
    /\ (ticket[w].generation = generation[j] /\ RunnerOf[w] = runner[j])
         => (leased[j] = w \/ <<w, j>> \in overtaken)
TicketInv == \A w \in Workers, j \in RunnerJobs : TicketFor(w, j)

ReportFor(j) ==
  reporter[j] # None =>
    /\ status[j] = "COMPLETED"
    /\ reporter[j] \in Workers /\ leased[j] \in Workers
    /\ \/ reporter[j] = leased[j]
       \/ RunnerOf[reporter[j]] = RunnerOf[leased[j]] /\ <<reporter[j], j>> \in overtaken
ReportInv == \A j \in RunnerJobs : ReportFor(j)

RunnerInv == RunnerTypeOK /\ HolderInv /\ CallInv /\ TicketInv /\ ReportInv

-----------------------------------------------------------------------------
LEMMA InitRunner == RunnerInit => RunnerInv
  BY RunnerTimeAssumption, RunnerAssumption
  DEF RunnerInit, RunnerInv, RunnerTypeOK, HolderInv, CallInv, TicketInv, TicketFor,
      ReportInv, ReportFor, Held, Idle, Call, Calls, NoTicket

LEMMA CallType ==
  ASSUME NEW w \in Workers, NEW c \in Calls, call \in [Workers -> Calls], CallTo(w, c)
  PROVE  call' \in [Workers -> Calls]
  BY DEF CallTo

LEMMA IdleType == RunnerTypeOK => Idle \in Calls
  BY DEF RunnerTypeOK, Idle, Call, Calls

LEMMA TypeStep == RunnerTypeOK /\ CallInv /\ TicketInv /\ [RunnerNext]_runnerVars => RunnerTypeOK'
<1> SUFFICES ASSUME RunnerTypeOK, CallInv, TicketInv, [RunnerNext]_runnerVars
             PROVE  RunnerTypeOK'
    OBVIOUS
<1> USE RunnerTimeAssumption, RunnerAssumption
<1>1. ASSUME NEW j \in RunnerJobs, Dispatch(j) PROVE RunnerTypeOK'
      BY <1>1 DEF Dispatch, RunnerTypeOK, Calls
<1>2. ASSUME NEW w \in Workers, NEW j \in RunnerJobs, SelectJob(w, j) PROVE RunnerTypeOK'
      BY <1>2 DEF SelectJob, CallTo, Call, row, RunnerTypeOK, Calls
<1>3. ASSUME NEW w \in Workers, TakeJob(w) PROVE RunnerTypeOK'
  <2> DEFINE j == call[w].job
             t == call[w].token
             e == call[w].at + RunnerTtl
  <2>1. j \in RunnerJobs /\ t \in 0..drawn /\ e \in Nat /\ now \in Nat
        BY <1>3 DEF TakeJob, CallInv, RunnerTypeOK, Calls
  <2>2. CASE StillClaimable(call[w])
    <3>1. /\ status' = [status EXCEPT ![j] = "LEASED"]
          /\ runner' = [runner EXCEPT ![j] = RunnerOf[w]]
          /\ expires' = [expires EXCEPT ![j] = e] /\ updated' = [updated EXCEPT ![j] = now]
          /\ leased' = [leased EXCEPT ![j] = w]
          /\ UNCHANGED <<now, drawn, ticket, overtaken, reporter>>
          BY <1>3, <2>2 DEF TakeJob
    <3>2. /\ generation' \in [RunnerJobs -> Nat]
          /\ token' \in [RunnerJobs -> 0..drawn]
      <4>1. Rotated(j, t)[1] \in Nat /\ Rotated(j, t)[2] \in 0..drawn
            BY <2>1 DEF Rotated, RunnerTypeOK
      <4>2. /\ generation' = [generation EXCEPT ![j] = Rotated(j, t)[1]]
            /\ token' = [token EXCEPT ![j] = Rotated(j, t)[2]]
            BY <1>3, <2>2 DEF TakeJob
      <4> QED BY <2>1, <4>1, <4>2 DEF RunnerTypeOK
    <3>3. Call("read", j, 0, 0, 0) \in Calls
          BY <2>1 DEF Call, Calls, RunnerTypeOK
    <3>4. call' \in [Workers -> Calls]
          BY <1>3, <2>2, <3>3, CallType DEF TakeJob, RunnerTypeOK
    <3> QED BY <2>1, <3>1, <3>2, <3>4 DEF RunnerTypeOK, Calls
  <2>3. CASE ~StillClaimable(call[w])
    <3>1. CallTo(w, Idle) /\ UNCHANGED <<now, status, row, drawn, ticket, leased, overtaken, reporter>>
          BY <1>3, <2>3 DEF TakeJob
    <3>2. call' \in [Workers -> Calls]
          BY <3>1, CallType, IdleType DEF RunnerTypeOK
    <3> QED BY <3>1, <3>2 DEF row, RunnerTypeOK, Calls
  <2> QED BY <2>2, <2>3
<1>4. ASSUME NEW w \in Workers, ReadTicket(w) PROVE RunnerTypeOK'
  <2>1. call' \in [Workers -> Calls]
        BY <1>4, CallType, IdleType DEF ReadTicket, RunnerTypeOK
  <2>2. call[w].job \in RunnerJobs
        BY <1>4 DEF ReadTicket, CallInv
  <2>3. ticket' \in [Workers -> [job : RunnerJobs \cup {None}, token : 0..drawn, generation : Nat]]
        BY <1>4, <2>2 DEF ReadTicket, RunnerTypeOK
  <2>4. overtaken' \subseteq Workers \X RunnerJobs
        BY <1>4, <2>2 DEF ReadTicket, RunnerTypeOK
  <2> QED BY <1>4, <2>1, <2>3, <2>4 DEF ReadTicket, row, RunnerTypeOK, Calls
<1>5. ASSUME NEW w \in Workers, StartHeartbeat(w) PROVE RunnerTypeOK'
  <2> DEFINE j == ticket[w].job
             c == Call("beat", j, now, token[j], generation[j])
  <2>1. c \in Calls
        BY <1>5 DEF StartHeartbeat, Call, Calls, RunnerTypeOK
  <2>2. call' \in [Workers -> Calls]
        BY <1>5, <2>1, CallType DEF StartHeartbeat, RunnerTypeOK
  <2> QED BY <1>5, <2>2 DEF StartHeartbeat, row, RunnerTypeOK, Calls
<1>6. ASSUME NEW w \in Workers, HeartbeatJob(w) PROVE RunnerTypeOK'
  <2> DEFINE j == call[w].job
  <2>1. j \in RunnerJobs /\ call[w].at + RunnerTtl \in Nat /\ now \in Nat
        BY <1>6 DEF HeartbeatJob, CallInv, RunnerTypeOK, Calls
  <2>2. CASE Owned(w, call[w], call[w].at)
    <3>1. /\ expires' = [expires EXCEPT ![j] = call[w].at + RunnerTtl]
          /\ updated' = [updated EXCEPT ![j] = now]
          BY <1>6, <2>2 DEF HeartbeatJob
    <3> QED BY <1>6, <2>1, <3>1, IdleType, CallType DEF HeartbeatJob, RunnerTypeOK, Calls
  <2>3. CASE ~Owned(w, call[w], call[w].at)
    <3>1. UNCHANGED <<expires, updated>>
          BY <1>6, <2>3 DEF HeartbeatJob
    <3> QED BY <1>6, <3>1, IdleType, CallType DEF HeartbeatJob, RunnerTypeOK, Calls
  <2> QED BY <2>2, <2>3
<1>7. ASSUME NEW w \in Workers, StartSubmit(w) PROVE RunnerTypeOK'
      BY <1>7 DEF StartSubmit, CallTo, Call, row, RunnerTypeOK, Calls
<1>8. ASSUME NEW w \in Workers, CompleteJob(w) PROVE RunnerTypeOK'
  <2> DEFINE j == call[w].job
  <2>1. j \in RunnerJobs /\ now \in Nat
        BY <1>8 DEF CompleteJob, CallInv, RunnerTypeOK, Calls
  <2>2. CASE Owned(w, ticket[w], now)
    <3>1. /\ status' = [status EXCEPT ![j] = "COMPLETED"]
          /\ reporter' = [reporter EXCEPT ![j] = w]
          /\ updated' = [updated EXCEPT ![j] = now] /\ expires' = [expires EXCEPT ![j] = 0]
          BY <1>8, <2>2 DEF CompleteJob
    <3> QED BY <1>8, <2>1, <3>1, IdleType, CallType DEF CompleteJob, RunnerTypeOK, Calls
  <2>3. CASE ~Owned(w, ticket[w], now)
    <3>1. UNCHANGED <<status, reporter, updated, expires>>
          BY <1>8, <2>3 DEF CompleteJob
    <3> QED BY <1>8, <3>1, IdleType, CallType DEF CompleteJob, RunnerTypeOK, Calls
  <2> QED BY <2>2, <2>3
<1>9. ASSUME NEW w \in Workers, WorkerDies(w) PROVE RunnerTypeOK'
      BY <1>9 DEF WorkerDies, CallTo, Call, Idle, NoTicket, row, RunnerTypeOK, Calls
<1>10. ASSUME RunnerTick PROVE RunnerTypeOK'
      BY <1>10 DEF RunnerTick, row, RunnerTypeOK, Calls
<1>11. ASSUME UNCHANGED runnerVars PROVE RunnerTypeOK'
      BY <1>11 DEF runnerVars, row, RunnerTypeOK, Calls
<1> QED BY <1>1, <1>2, <1>3, <1>4, <1>5, <1>6, <1>7, <1>8, <1>9, <1>10, <1>11 DEF RunnerNext

-----------------------------------------------------------------------------
(* What a claim that succeeds does to the rows, and that nothing else gives  *)
(* a row away: the other actions keep holders and generations.               *)
LEMMA Taken ==
  ASSUME RunnerTypeOK, CallInv, NEW w \in Workers, TakeJob(w), StillClaimable(call[w]),
         NEW j, j = call[w].job
  PROVE  /\ j \in RunnerJobs /\ Claimable(j, call[w].at) /\ call[w].at <= now
         /\ status' = [status EXCEPT ![j] = "LEASED"]
         /\ runner' = [runner EXCEPT ![j] = RunnerOf[w]]
         /\ leased' = [leased EXCEPT ![j] = w]
         /\ generation'[j] = IF status[j] = "LEASED" THEN generation[j] + 1 ELSE generation[j]
         /\ \A k \in RunnerJobs \ {j} : generation'[k] = generation[k]
         /\ call' = [call EXCEPT ![w] = Call("read", j, 0, 0, 0)]
         /\ UNCHANGED <<ticket, overtaken, reporter>>
<1>1. j \in RunnerJobs /\ Claimable(j, call[w].at) /\ call[w].at <= now
      BY DEF TakeJob, CallInv, StillClaimable, RunnerTypeOK, Calls
<1>2. /\ generation' = [generation EXCEPT ![j] = Rotated(j, call[w].token)[1]]
      /\ status' = [status EXCEPT ![j] = "LEASED"]
      /\ runner' = [runner EXCEPT ![j] = RunnerOf[w]]
      /\ leased' = [leased EXCEPT ![j] = w]
      /\ call' = [call EXCEPT ![w] = Call("read", j, 0, 0, 0)]
      /\ UNCHANGED <<ticket, overtaken, reporter>>
      BY DEF TakeJob, CallTo
<1>3. Rotated(j, call[w].token)[1]
        = IF status[j] = "LEASED" THEN generation[j] + 1 ELSE generation[j]
      BY DEF Rotated
<1> QED BY <1>1, <1>2, <1>3 DEF RunnerTypeOK

LEMMA NotTaken ==
  ASSUME NEW w \in Workers, TakeJob(w), ~StillClaimable(call[w])
  PROVE  /\ call' = [call EXCEPT ![w] = Idle]
         /\ UNCHANGED <<status, row, leased, ticket, overtaken, reporter>>
  BY DEF TakeJob, CallTo

LEMMA Completed ==
  ASSUME RunnerTypeOK, CallInv, NEW w \in Workers, CompleteJob(w), Owned(w, ticket[w], now),
         NEW j, j = ticket[w].job
  PROVE  /\ j \in RunnerJobs /\ status[j] = "LEASED" /\ runner[j] = RunnerOf[w]
         /\ generation[j] = ticket[w].generation
         /\ status' = [status EXCEPT ![j] = "COMPLETED"]
         /\ reporter' = [reporter EXCEPT ![j] = w]
         /\ call' = [call EXCEPT ![w] = Idle]
         /\ UNCHANGED <<generation, runner, ticket, leased, overtaken>>
  BY DEF CompleteJob, Owned, CallInv, CallTo

LEMMA NotCompleted ==
  ASSUME NEW w \in Workers, CompleteJob(w), ~Owned(w, ticket[w], now)
  PROVE  /\ call' = [call EXCEPT ![w] = Idle]
         /\ UNCHANGED <<status, generation, runner, ticket, leased, overtaken, reporter>>
  BY DEF CompleteJob, CallTo

(* The other actions, as far as holders, tickets and reports are concerned.  *)
LEMMA OthersKeep ==
  ASSUME RunnerTypeOK, [RunnerNext]_runnerVars,
         \A w \in Workers : ~TakeJob(w) /\ ~CompleteJob(w)
  PROVE  /\ UNCHANGED <<generation, runner, leased, reporter>>
         /\ \A j \in RunnerJobs :
              status'[j] = status[j] \/ (status[j] = "absent" /\ status'[j] = "PENDING")
<1>1. ASSUME NEW j \in RunnerJobs, Dispatch(j)
      PROVE  /\ UNCHANGED <<generation, runner, leased, reporter>>
             /\ \A k \in RunnerJobs :
                  status'[k] = status[k] \/ (status[k] = "absent" /\ status'[k] = "PENDING")
      BY <1>1 DEF Dispatch, RunnerTypeOK
<1>2. ASSUME NEW w \in Workers,
             \/ \E j \in RunnerJobs : SelectJob(w, j)
             \/ ReadTicket(w) \/ StartHeartbeat(w) \/ HeartbeatJob(w)
             \/ StartSubmit(w) \/ WorkerDies(w)
      PROVE  UNCHANGED <<status, generation, runner, leased, reporter>>
      BY <1>2 DEF SelectJob, ReadTicket, StartHeartbeat, HeartbeatJob, StartSubmit, WorkerDies, row
<1>3. ASSUME RunnerTick \/ UNCHANGED runnerVars
      PROVE  UNCHANGED <<status, generation, runner, leased, reporter>>
      BY <1>3 DEF RunnerTick, runnerVars, row
<1> QED BY <1>1, <1>2, <1>3 DEF RunnerNext

LEMMA HolderStep ==
  RunnerTypeOK /\ CallInv /\ HolderInv /\ [RunnerNext]_runnerVars => HolderInv'
<1> SUFFICES ASSUME RunnerTypeOK, CallInv, HolderInv, [RunnerNext]_runnerVars,
                    NEW k \in RunnerJobs, status'[k] \in Held
             PROVE  leased'[k] \in Workers /\ runner'[k] = RunnerOf[leased'[k]]
    BY DEF HolderInv
<1>1. ASSUME NEW w \in Workers, TakeJob(w), StillClaimable(call[w])
      PROVE  leased'[k] \in Workers /\ runner'[k] = RunnerOf[leased'[k]]
  <2>1. CASE call[w].job = k
    <3>1. leased'[k] = w /\ runner'[k] = RunnerOf[w]
          BY <1>1, <2>1, Taken DEF RunnerTypeOK
    <3> QED BY <3>1
  <2>2. CASE call[w].job # k
    <3>1. leased'[k] = leased[k] /\ runner'[k] = runner[k] /\ status'[k] = status[k]
          BY <1>1, <2>2, Taken DEF RunnerTypeOK
    <3> QED BY <3>1 DEF HolderInv
  <2> QED BY <2>1, <2>2
<1>2. ASSUME NEW w \in Workers, TakeJob(w), ~StillClaimable(call[w])
      PROVE  leased'[k] \in Workers /\ runner'[k] = RunnerOf[leased'[k]]
      BY <1>2, NotTaken DEF HolderInv, row
<1>3. ASSUME NEW w \in Workers, CompleteJob(w), Owned(w, ticket[w], now)
      PROVE  leased'[k] \in Workers /\ runner'[k] = RunnerOf[leased'[k]]
      BY <1>3, Completed DEF HolderInv, RunnerTypeOK, Held
<1>4. ASSUME NEW w \in Workers, CompleteJob(w), ~Owned(w, ticket[w], now)
      PROVE  leased'[k] \in Workers /\ runner'[k] = RunnerOf[leased'[k]]
      BY <1>4, NotCompleted DEF HolderInv
<1>5. CASE \A w \in Workers : ~TakeJob(w) /\ ~CompleteJob(w)
      BY <1>5, OthersKeep DEF HolderInv, Held
<1> QED BY <1>1, <1>2, <1>3, <1>4, <1>5

LEMMA CallStep ==
  RunnerTypeOK /\ CallInv /\ [RunnerNext]_runnerVars => CallInv'
<1> SUFFICES ASSUME RunnerTypeOK, CallInv, [RunnerNext]_runnerVars, NEW v \in Workers
             PROVE  /\ call'[v].op # "none" => call'[v].job \in RunnerJobs
                    /\ call'[v].op = "read" => status'[call'[v].job] \in Held
                    /\ call'[v].op = "submit" => ticket'[v].job = call'[v].job
    BY DEF CallInv
<1> DEFINE Good == /\ call'[v].op # "none" => call'[v].job \in RunnerJobs
                   /\ call'[v].op = "read" => status'[call'[v].job] \in Held
                   /\ call'[v].op = "submit" => ticket'[v].job = call'[v].job
<1>1. ASSUME NEW w \in Workers, TakeJob(w), StillClaimable(call[w]) PROVE Good
      BY <1>1, Taken DEF CallInv, RunnerTypeOK, Call, Held
<1>2. ASSUME NEW w \in Workers, TakeJob(w), ~StillClaimable(call[w]) PROVE Good
      BY <1>2, NotTaken DEF CallInv, RunnerTypeOK, Idle, Call
<1>3. ASSUME NEW w \in Workers, CompleteJob(w), Owned(w, ticket[w], now) PROVE Good
  <2>1. call' = [call EXCEPT ![w] = Idle] /\ ticket' = ticket
        BY <1>3, Completed
  <2>2. \A k \in RunnerJobs : status[k] \in Held => status'[k] \in Held
        BY <1>3, Completed DEF RunnerTypeOK, Held
  <2> QED BY <2>1, <2>2 DEF CallInv, RunnerTypeOK, Idle, Call
<1>4. ASSUME NEW w \in Workers, CompleteJob(w), ~Owned(w, ticket[w], now) PROVE Good
      BY <1>4, NotCompleted DEF CallInv, RunnerTypeOK, Idle, Call
<1>5. ASSUME NEW j \in RunnerJobs, Dispatch(j) PROVE Good
      BY <1>5 DEF Dispatch, CallInv, RunnerTypeOK, Held
<1>6. ASSUME NEW w \in Workers, NEW j \in RunnerJobs, SelectJob(w, j) PROVE Good
      BY <1>6 DEF SelectJob, CallTo, Call, CallInv, RunnerTypeOK
<1>7. ASSUME NEW w \in Workers, ReadTicket(w) PROVE Good
      BY <1>7 DEF ReadTicket, CallTo, Idle, Call, CallInv, RunnerTypeOK
<1>8. ASSUME NEW w \in Workers, StartHeartbeat(w) PROVE Good
      BY <1>8 DEF StartHeartbeat, CallTo, Call, CallInv, RunnerTypeOK
<1>9. ASSUME NEW w \in Workers, HeartbeatJob(w) PROVE Good
      BY <1>9 DEF HeartbeatJob, CallTo, Idle, Call, CallInv, RunnerTypeOK
<1>10. ASSUME NEW w \in Workers, StartSubmit(w) PROVE Good
      BY <1>10 DEF StartSubmit, CallTo, Call, CallInv, RunnerTypeOK
<1>11. ASSUME NEW w \in Workers, WorkerDies(w) PROVE Good
      BY <1>11 DEF WorkerDies, CallTo, Idle, Call, CallInv, RunnerTypeOK
<1>12. ASSUME RunnerTick \/ UNCHANGED runnerVars PROVE Good
      BY <1>12 DEF RunnerTick, runnerVars, CallInv
<1> QED BY <1>1, <1>2, <1>3, <1>4, <1>5, <1>6, <1>7, <1>8, <1>9, <1>10, <1>11, <1>12 DEF RunnerNext

LEMMA TicketStep ==
  RunnerTypeOK /\ CallInv /\ HolderInv /\ TicketInv /\ [RunnerNext]_runnerVars => TicketInv'
<1> SUFFICES ASSUME RunnerTypeOK, CallInv, HolderInv, TicketInv, [RunnerNext]_runnerVars,
                    NEW v \in Workers, NEW k \in RunnerJobs
             PROVE  TicketFor(v, k)'
    BY DEF TicketInv
<1>0. TicketFor(v, k)
      BY DEF TicketInv
<1>1. ASSUME NEW w \in Workers, TakeJob(w), StillClaimable(call[w]) PROVE TicketFor(v, k)'
  <2>1. CASE call[w].job = k
    <3>1. ticket[v].job = k => status[k] = "LEASED"
          BY <1>0, <1>1, <2>1, Taken DEF TicketFor, Claimable, Expired, Held
    <3>2. ticket[v].job = k => generation'[k] = generation[k] + 1 /\ ticket[v].generation <= generation[k]
          BY <1>0, <1>1, <2>1, <3>1, Taken DEF TicketFor
    <3>3. ticket'[v] = ticket[v] /\ status'[k] = "LEASED"
          /\ generation[k] \in Nat /\ ticket[v].generation \in Nat
          BY <1>1, <2>1, Taken DEF RunnerTypeOK
    <3> QED BY <3>2, <3>3 DEF TicketFor, Held
  <2>2. CASE call[w].job # k
    <3>1. /\ ticket'[v] = ticket[v] /\ status'[k] = status[k] /\ generation'[k] = generation[k]
          /\ runner'[k] = runner[k] /\ leased'[k] = leased[k] /\ overtaken' = overtaken
          BY <1>1, <2>2, Taken DEF RunnerTypeOK
    <3> QED BY <1>0, <3>1 DEF TicketFor
  <2> QED BY <2>1, <2>2
<1>2. ASSUME NEW w \in Workers, TakeJob(w), ~StillClaimable(call[w]) PROVE TicketFor(v, k)'
      BY <1>0, <1>2, NotTaken DEF TicketFor, row
<1>3. ASSUME NEW w \in Workers, CompleteJob(w), Owned(w, ticket[w], now) PROVE TicketFor(v, k)'
      BY <1>0, <1>3, Completed DEF TicketFor, RunnerTypeOK, Held
<1>4. ASSUME NEW w \in Workers, CompleteJob(w), ~Owned(w, ticket[w], now) PROVE TicketFor(v, k)'
      BY <1>0, <1>4, NotCompleted DEF TicketFor
<1>5. ASSUME NEW w \in Workers, ReadTicket(w) PROVE TicketFor(v, k)'
  <2>1. UNCHANGED <<status, generation, runner, leased>>
        BY <1>5 DEF ReadTicket, row
  <2>2. CASE v = w /\ call[w].job = k
    <3>1. ticket'[v].generation = generation[k] /\ generation[k] \in Nat
          BY <1>5, <2>2 DEF ReadTicket, RunnerTypeOK
    <3>2. status[k] \in Held
          BY <1>5, <2>2 DEF ReadTicket, CallInv
    <3>3. leased[k] = w \/ <<w, k>> \in overtaken'
          BY <1>5, <2>2 DEF ReadTicket
    <3> QED BY <2>1, <2>2, <3>1, <3>2, <3>3 DEF TicketFor
  <2>3. CASE v = w /\ call[w].job # k
        BY <1>5, <2>3 DEF ReadTicket, TicketFor, RunnerTypeOK
  <2>4. CASE v # w
    <3>1. ticket'[v] = ticket[v] /\ (<<v, k>> \in overtaken => <<v, k>> \in overtaken')
          BY <1>5, <2>4 DEF ReadTicket, RunnerTypeOK
    <3> QED BY <1>0, <2>1, <3>1 DEF TicketFor
  <2> QED BY <2>2, <2>3, <2>4
<1>6. ASSUME NEW w \in Workers, WorkerDies(w) PROVE TicketFor(v, k)'
  <2>1. CASE v = w
        BY <1>6, <2>1, RunnerAssumption DEF WorkerDies, TicketFor, NoTicket, RunnerTypeOK
  <2>2. CASE v # w
        BY <1>0, <1>6, <2>2 DEF WorkerDies, TicketFor, RunnerTypeOK, row
  <2> QED BY <2>1, <2>2
<1>7. ASSUME NEW j \in RunnerJobs, Dispatch(j) PROVE TicketFor(v, k)'
      BY <1>0, <1>7 DEF Dispatch, TicketFor, RunnerTypeOK, Held
<1>8. ASSUME \/ \E w \in Workers :
                  \/ \E j \in RunnerJobs : SelectJob(w, j)
                  \/ StartHeartbeat(w) \/ HeartbeatJob(w) \/ StartSubmit(w)
             \/ RunnerTick \/ UNCHANGED runnerVars
      PROVE  TicketFor(v, k)'
  <2>1. UNCHANGED <<status, generation, runner, leased, ticket, overtaken>>
        BY <1>8 DEF SelectJob, StartHeartbeat, HeartbeatJob, StartSubmit, RunnerTick, runnerVars, row
  <2> QED BY <1>0, <2>1 DEF TicketFor
<1> QED BY <1>1, <1>2, <1>3, <1>4, <1>5, <1>6, <1>7, <1>8 DEF RunnerNext

LEMMA ReportStep ==
  RunnerTypeOK /\ CallInv /\ HolderInv /\ TicketInv /\ ReportInv /\ [RunnerNext]_runnerVars
    => ReportInv'
<1> SUFFICES ASSUME RunnerTypeOK, CallInv, HolderInv, TicketInv, ReportInv, [RunnerNext]_runnerVars,
                    NEW k \in RunnerJobs
             PROVE  ReportFor(k)'
    BY DEF ReportInv
<1>0. ReportFor(k)
      BY DEF ReportInv
<1>1. ASSUME NEW w \in Workers, TakeJob(w), StillClaimable(call[w]) PROVE ReportFor(k)'
  <2>1. CASE call[w].job = k
        BY <1>0, <1>1, <2>1, Taken DEF ReportFor, Claimable, Expired
  <2>2. CASE call[w].job # k
    <3>1. /\ status'[k] = status[k] /\ leased'[k] = leased[k]
          /\ reporter' = reporter /\ overtaken' = overtaken
          BY <1>1, <2>2, Taken DEF RunnerTypeOK
    <3> QED BY <1>0, <3>1 DEF ReportFor
  <2> QED BY <2>1, <2>2
<1>2. ASSUME NEW w \in Workers, TakeJob(w), ~StillClaimable(call[w]) PROVE ReportFor(k)'
      BY <1>0, <1>2, NotTaken DEF ReportFor
<1>3. ASSUME NEW w \in Workers, CompleteJob(w), Owned(w, ticket[w], now) PROVE ReportFor(k)'
  <2>1. CASE ticket[w].job = k
    <3>1. /\ status[k] = "LEASED" /\ runner[k] = RunnerOf[w]
          /\ generation[k] = ticket[w].generation
          /\ reporter'[k] = w /\ status'[k] = "COMPLETED"
          /\ leased' = leased /\ overtaken' = overtaken
          BY <1>3, <2>1, Completed DEF RunnerTypeOK
    <3>2. leased[k] = w \/ <<w, k>> \in overtaken
          BY <2>1, <3>1 DEF TicketInv, TicketFor
    <3>3. leased[k] \in Workers /\ RunnerOf[leased[k]] = RunnerOf[w]
          BY <3>1 DEF HolderInv, Held
    <3> QED BY <3>1, <3>2, <3>3 DEF ReportFor
  <2>2. CASE ticket[w].job # k
    <3>1. /\ status'[k] = status[k] /\ reporter'[k] = reporter[k]
          /\ leased' = leased /\ overtaken' = overtaken
          BY <1>3, <2>2, Completed DEF RunnerTypeOK
    <3> QED BY <1>0, <3>1 DEF ReportFor
  <2> QED BY <2>1, <2>2
<1>4. ASSUME NEW w \in Workers, CompleteJob(w), ~Owned(w, ticket[w], now) PROVE ReportFor(k)'
      BY <1>0, <1>4, NotCompleted DEF ReportFor
<1>5. ASSUME NEW w \in Workers, ReadTicket(w) PROVE ReportFor(k)'
  <2>1. UNCHANGED <<status, leased, reporter>>
        BY <1>5 DEF ReadTicket, row
  <2>2. leased[k] # reporter[k] /\ <<reporter[k], k>> \in overtaken
          => <<reporter[k], k>> \in overtaken'
        BY <1>5 DEF ReadTicket
  <2> QED BY <1>0, <2>1, <2>2 DEF ReportFor
<1>6. ASSUME \/ \E w \in Workers :
                  \/ \E j \in RunnerJobs : SelectJob(w, j)
                  \/ StartHeartbeat(w) \/ HeartbeatJob(w) \/ StartSubmit(w) \/ WorkerDies(w)
             \/ RunnerTick \/ UNCHANGED runnerVars
      PROVE  ReportFor(k)'
  <2>1. UNCHANGED <<status, leased, overtaken, reporter>>
        BY <1>6 DEF SelectJob, StartHeartbeat, HeartbeatJob, StartSubmit, WorkerDies,
                    RunnerTick, runnerVars, row
  <2> QED BY <1>0, <2>1 DEF ReportFor
<1>7. ASSUME NEW j \in RunnerJobs, Dispatch(j) PROVE ReportFor(k)'
      BY <1>0, <1>7 DEF Dispatch, ReportFor, RunnerTypeOK
<1> QED BY <1>1, <1>2, <1>3, <1>4, <1>5, <1>6, <1>7 DEF RunnerNext

-----------------------------------------------------------------------------
LEMMA InvAlways == RunnerSpec => []RunnerInv
<1>1. RunnerInv /\ [RunnerNext]_runnerVars => RunnerInv'
      BY TypeStep, HolderStep, CallStep, TicketStep, ReportStep DEF RunnerInv
<1> QED BY <1>1, InitRunner, PTL DEF RunnerSpec

(* The rows, calls and tickets of the queue have their types.                *)
THEOREM RunnerTypeCorrect == RunnerSpec => []RunnerTypeOK
<1>1. RunnerInv => RunnerTypeOK
      BY DEF RunnerInv
<1> QED BY <1>1, InvAlways, PTL

(* A job's result is its last holder's, for any workers, runner ids and      *)
(* numbers of jobs, claims and ticks.                                        *)
THEOREM ResultsFenced == RunnerSpec => []ResultFenced
<1>1. RunnerInv => ResultFenced
      BY DEF RunnerInv, ReportInv, ReportFor, ResultFenced
<1> QED BY <1>1, InvAlways, PTL

(* Where no two workers share a runner id, there is no exception: only the   *)
(* worker that leased a job last can complete it.                            *)
UniqueRunners == \A v, w \in Workers : RunnerOf[v] = RunnerOf[w] => v = w
ResultOfHolder == \A j \in RunnerJobs : reporter[j] # None => reporter[j] = leased[j]
THEOREM HoldersReport ==
  ASSUME UniqueRunners
  PROVE  RunnerSpec => []ResultOfHolder
<1>1. RunnerInv => ResultOfHolder
      BY DEF UniqueRunners, RunnerInv, ReportInv, ReportFor, ResultOfHolder
<1> QED BY <1>1, InvAlways, PTL

(* A result is final: no late claim, renewal or submission changes it.       *)
THEOREM ResultsFinal == RunnerSpec => ResultIsFinal
<1>1. ASSUME RunnerInv, [RunnerNext]_runnerVars, NEW k \in RunnerJobs, status[k] = "COMPLETED"
      PROVE  status'[k] = "COMPLETED" /\ reporter'[k] = reporter[k] /\ leased'[k] = leased[k]
  <2>0. RunnerTypeOK /\ CallInv
        BY <1>1 DEF RunnerInv
  <2>1. ASSUME NEW w \in Workers, TakeJob(w), StillClaimable(call[w])
        PROVE  status'[k] = "COMPLETED" /\ reporter'[k] = reporter[k] /\ leased'[k] = leased[k]
    <3>1. call[w].job # k
          BY <1>1, <2>0, <2>1, Taken DEF Claimable, Expired
    <3> QED BY <1>1, <2>0, <2>1, <3>1, Taken DEF RunnerTypeOK
  <2>2. ASSUME NEW w \in Workers, TakeJob(w), ~StillClaimable(call[w])
        PROVE  UNCHANGED <<status, leased, reporter>>
        BY <2>2, NotTaken
  <2>3. ASSUME NEW w \in Workers, CompleteJob(w), Owned(w, ticket[w], now)
        PROVE  status'[k] = "COMPLETED" /\ reporter'[k] = reporter[k] /\ leased'[k] = leased[k]
    <3>1. ticket[w].job # k
          BY <1>1, <2>0, <2>3, Completed
    <3> QED BY <1>1, <2>0, <2>3, <3>1, Completed DEF RunnerTypeOK
  <2>4. ASSUME NEW w \in Workers, CompleteJob(w), ~Owned(w, ticket[w], now)
        PROVE  UNCHANGED <<status, leased, reporter>>
        BY <2>4, NotCompleted
  <2>5. CASE \A w \in Workers : ~TakeJob(w) /\ ~CompleteJob(w)
        BY <1>1, <2>0, <2>5, OthersKeep
  <2> QED BY <1>1, <2>1, <2>2, <2>3, <2>4, <2>5
<1>2. RunnerInv /\ [RunnerNext]_runnerVars =>
        [\A j \in RunnerJobs : status[j] = "COMPLETED" =>
           status'[j] = "COMPLETED" /\ reporter'[j] = reporter[j] /\ leased'[j] = leased[j]]_runnerVars
      BY <1>1
<1> QED BY <1>2, InvAlways, PTL DEF RunnerSpec, ResultIsFinal

(* A lease that still runs is not taken, although a claim goes by a time and *)
(* a row it read before.                                                     *)
THEOREM LeasesNotStolen == RunnerSpec => LeaseNotStolen
<1>1. ASSUME RunnerInv, [RunnerNext]_runnerVars, NEW k \in RunnerJobs,
             status[k] = "LEASED", leased'[k] # leased[k]
      PROVE  expires[k] <= now
  <2>0. RunnerTypeOK /\ CallInv
        BY <1>1 DEF RunnerInv
  <2>1. ASSUME NEW w \in Workers, TakeJob(w), StillClaimable(call[w])
        PROVE  expires[k] <= now
    <3>1. call[w].job = k
          BY <1>1, <2>0, <2>1, Taken DEF RunnerTypeOK
    <3>2. expires[k] <= call[w].at /\ call[w].at <= now
          BY <1>1, <2>0, <2>1, <3>1, Taken DEF Claimable, Expired
    <3>3. expires[k] \in Nat /\ call[w].at \in Nat /\ now \in Nat
          BY <2>0 DEF RunnerTypeOK, Calls
    <3> QED BY <3>2, <3>3
  <2>2. ASSUME NEW w \in Workers, TakeJob(w), ~StillClaimable(call[w]) PROVE FALSE
        BY <1>1, <2>2, NotTaken
  <2>3. ASSUME NEW w \in Workers, CompleteJob(w) PROVE FALSE
        BY <1>1, <2>3 DEF CompleteJob
  <2>4. CASE \A w \in Workers : ~TakeJob(w) /\ ~CompleteJob(w)
        BY <1>1, <2>0, <2>4, OthersKeep
  <2> QED BY <2>1, <2>2, <2>3, <2>4
<1>2. RunnerInv /\ [RunnerNext]_runnerVars =>
        [\A j \in RunnerJobs : (status[j] = "LEASED" /\ leased'[j] # leased[j]) => expires[j] <= now]_runnerVars
      BY <1>1
<1> QED BY <1>2, InvAlways, PTL DEF RunnerSpec, LeaseNotStolen

(* Both together: a job with a running lease or an accepted result is left    *)
(* to the worker it was leased to.                                            *)
THEOREM LeasesRespected == RunnerSpec => LeaseRespected
BY ResultsFinal, LeasesNotStolen DEF LeaseRespected
=============================================================================
