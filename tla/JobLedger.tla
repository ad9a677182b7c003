----------------------------- MODULE JobLedger -----------------------------
(***************************************************************************)
(* What the durable job queue promises, without leases, timers, owners'    *)
(* memory or SQL: a job is granted to one worker at a time, a grant may    *)
(* lapse and go to another worker, and only the worker that holds the job  *)
(* and is doing it can settle it, once.                                    *)
(***************************************************************************)
CONSTANTS Workers, Jobs, None

VARIABLES
  phase,   \* [Jobs -> {"absent", "open", "settled"}]
  holder,  \* [Jobs -> Workers \cup {None}]: whose grant is on record
  lapsed,  \* jobs whose grant may be given to somebody else
  doing    \* [Workers -> Jobs \cup {None}]: what a worker believes it does

vars == <<phase, holder, lapsed, doing>>

TypeOK ==
  /\ phase \in [Jobs -> {"absent", "open", "settled"}]
  /\ holder \in [Jobs -> Workers \cup {None}]
  /\ lapsed \in SUBSET Jobs
  /\ doing \in [Workers -> Jobs \cup {None}]

Init ==
  /\ phase = [j \in Jobs |-> "absent"]
  /\ holder = [j \in Jobs |-> None]
  /\ lapsed = {}
  /\ doing = [w \in Workers |-> None]

Submit(j) ==
  /\ phase[j] = "absent"
  /\ phase' = [phase EXCEPT ![j] = "open"]
  /\ UNCHANGED <<holder, lapsed, doing>>

Grant(j, w) ==
  /\ phase[j] = "open"
  /\ holder[j] = None \/ j \in lapsed
  /\ doing[w] = None
  /\ holder' = [holder EXCEPT ![j] = w]
  /\ lapsed' = lapsed \ {j}
  /\ doing' = [doing EXCEPT ![w] = j]
  /\ UNCHANGED phase

\* Time takes grants away from their holders, several at once.
Lapse ==
  /\ \E S \in SUBSET {j \in Jobs : holder[j] # None} : lapsed' = lapsed \cup S
  /\ UNCHANGED <<phase, holder, doing>>

\* A worker stops doing its job, having settled it or not.
Stop(w) == doing' = [doing EXCEPT ![w] = None]

Settle(j, w) ==
  /\ doing[w] = j
  /\ holder[j] = w
  /\ phase[j] = "open"
  /\ phase' = [phase EXCEPT ![j] = "settled"]
  /\ holder' = [holder EXCEPT ![j] = None]
  /\ lapsed' = lapsed \ {j}
  /\ Stop(w) \/ UNCHANGED doing

Abandon(w) == Stop(w) /\ UNCHANGED <<phase, holder, lapsed>>

\* A worker hands back whatever it holds.
GiveBack(w) ==
  /\ holder' = [j \in Jobs |-> IF holder[j] = w THEN None ELSE holder[j]]
  /\ lapsed' = {j \in lapsed : holder[j] # w}
  /\ UNCHANGED <<phase, doing>>

Next ==
  \/ \E j \in Jobs : Submit(j)
  \/ \E j \in Jobs, w \in Workers : Grant(j, w) \/ Settle(j, w)
  \/ \E w \in Workers : Abandon(w) \/ GiveBack(w)
  \/ Lapse

Spec == Init /\ [][Next]_vars
=============================================================================
