---------------------------- MODULE RelayOutbox -----------------------------
(***************************************************************************)
(* Events on their way to jobs: RelayPipeline (lib/relay/pipeline.mjs), the *)
(* file and Git observers with their cursors, the GitHub webhook source,   *)
(* and the drain that a service runs in each cycle.                        *)
(*                                                                         *)
(* Several processes share the events table: hosts, which scan the sources *)
(* and then drain the pending events of every workflow, and webhook        *)
(* requests.  Storing an event, routing it, marking it routed and          *)
(* advancing a cursor are separate steps, and a process may die between    *)
(* any two.  An event id is the hash of a content (E-file-<revision>,      *)
(* E-git-<revision>) or a delivery id (E-github-<id>); the payload and the *)
(* idempotency key of the former name the path as well.                    *)
(*                                                                         *)
(* DuplicateOnSight, MarkFirst, DrainAny, SkipRead and KeepPath are faulty *)
(* forms of the definition that follows each, to show that a property      *)
(* notices them; no action uses one.                                       *)
(***************************************************************************)
EXTENDS Naturals, FiniteSets

CONSTANTS
  Hosts,       \* processes that run RuntimeHost.runOnce
  Requests,    \* webhook requests an ingress server works on at once
  Paths,       \* watched files and repositories
  Contents,    \* revisions a watched path may have
  Deliveries,  \* GitHub delivery ids
  Silent,      \* revisions and deliveries the route makes nothing of:
               \* git.changed, and GitHub events that are no trigger
  Workflows,
  WorkflowOf,  \* the workflow of each revision and delivery
  MaxEdits,    \* bound on changes of the watched paths
  MaxFaults,   \* bound on crashes and failures of the route together
  None

Events == Contents \cup Deliveries
Actors == Hosts \cup Requests

ASSUME ActorAssumption == Hosts \cap Requests = {} /\ None \notin Actors
ASSUME EventAssumption ==
  /\ Contents \cap Deliveries = {} /\ None \notin Events
  /\ Silent \subseteq Events /\ WorkflowOf \in [Events -> Workflows]
ASSUME PathAssumption == None \notin Paths
ASSUME BoundAssumption == MaxEdits \in Nat /\ MaxFaults \in Nat

VARIABLES
  file,      \* what each path holds now
  cursor,    \* the cursors table: the revision seen last
  event,     \* the events table: [seq, path] by id; seq 0: no row
  last,      \* the last sequence number given
  routed,    \* events with a routed_at
  jobs,      \* events with a J-event-<id> row
  wf,        \* state of each workflow row
  acked,     \* deliveries answered with success
  pc, ev,    \* what each process does, and the event it works on
  from,      \* the path a scan took the event from; None in a drain
  todo,      \* a host's paths to scan, then its workflows to drain
  queue,     \* a drain's pending events, as read
  edits, faults,
  delivered  \* (history) events handed to the route

rowVars  == <<cursor, event, last, routed, jobs>>
procVars == <<pc, ev, from, todo, queue>>
vars == <<file, cursor, event, last, routed, jobs, wf, acked, pc, ev, from,
          todo, queue, edits, faults, delivered>>

Pcs == {"idle", "scan", "drain", "append", "route", "mark", "cursor", "record"}

TypeOK ==
  /\ file \in [Paths -> Contents \cup {None}]
  /\ cursor \in [Paths -> Contents \cup {None}]
  /\ event \in [Events -> [seq : Nat, path : Paths \cup {None}]]
  /\ last \in Nat
  /\ routed \subseteq Events /\ jobs \subseteq Events
  /\ wf \in [Workflows -> {"NONE", "RUNNING", "PARKED", "OVER"}]
  /\ acked \subseteq Deliveries
  /\ pc \in [Actors -> Pcs]
  /\ ev \in [Actors -> Events \cup {None}]
  /\ from \in [Actors -> Paths \cup {None}]
  /\ todo \in [Hosts -> SUBSET (Paths \cup Workflows)]
  /\ queue \in [Hosts -> SUBSET Events]
  /\ edits \in 0..MaxEdits /\ faults \in 0..MaxFaults
  /\ delivered \subseteq Events
  /\ \A a \in Actors :
       /\ pc[a] \notin {"idle", "scan", "drain"} => ev[a] # None
       /\ pc[a] \in {"idle", "scan", "drain"} => from[a] = None
       /\ pc[a] = "cursor" => from[a] # None

Init ==
  /\ file = [p \in Paths |-> None]
  /\ cursor = [p \in Paths |-> None]
  /\ event = [e \in Events |-> [seq |-> 0, path |-> None]]
  /\ last = 0
  /\ routed = {} /\ jobs = {}
  /\ wf = [w \in Workflows |-> "NONE"]
  /\ acked = {}
  /\ pc = [a \in Actors |-> "idle"]
  /\ ev = [a \in Actors |-> None]
  /\ from = [a \in Actors |-> None]
  /\ todo = [h \in Hosts |-> {}]
  /\ queue = [h \in Hosts |-> {}]
  /\ edits = 0 /\ faults = 0
  /\ delivered = {}

Stored  == {e \in Events : event[e].seq > 0}
Pending == Stored \ routed

Goto(a, label) == pc' = [pc EXCEPT ![a] = label]

-----------------------------------------------------------------------------
(* The world.                                                                *)

\* Somebody writes, replaces or removes a watched file.
Edit(p, c) ==
  /\ edits < MaxEdits /\ file[p] # c
  /\ edits' = edits + 1
  /\ file' = [file EXCEPT ![p] = c]
  /\ UNCHANGED <<rowVars, wf, acked, procVars, faults, delivered>>

\* WorkflowDaemon's part: a job makes or moves its workflow's row.
Moves(w, state) ==
  \/ /\ wf[w] \in {"NONE", "PARKED", "OVER"} /\ state = "RUNNING"
     /\ \E e \in jobs : WorkflowOf[e] = w
  \/ wf[w] = "RUNNING" /\ state \in {"PARKED", "OVER"}

Work(w, state) ==
  /\ Moves(w, state)
  /\ wf' = [wf EXCEPT ![w] = state]
  /\ UNCHANGED <<file, rowVars, acked, procVars, edits, faults, delivered>>

-----------------------------------------------------------------------------
(* Where an event comes from.                                                *)

\* RuntimeHost.runOnce starts with one scan of every source.
Begin(h) ==
  /\ h \in Hosts /\ pc[h] = "idle"
  /\ todo' = [todo EXCEPT ![h] = Paths]
  /\ Goto(h, "scan")
  /\ UNCHANGED <<file, rowVars, wf, acked, ev, from, queue, edits, faults, delivered>>

\* scanOnce reads the file; ENOENT and a revision the cursor has are passed by.
SkipRead(p) == file[p] = None \/ cursor[p] # None
Unchanged(p) == file[p] = None \/ cursor[p] = file[p]

PassBy(h, p) ==
  /\ pc[h] = "scan" /\ p \in todo[h] /\ Unchanged(p)
  /\ todo' = [todo EXCEPT ![h] = @ \ {p}]
  /\ UNCHANGED <<file, rowVars, wf, acked, pc, ev, from, queue, edits, faults,
                 delivered>>

Look(h, p) ==
  /\ pc[h] = "scan" /\ p \in todo[h] /\ ~Unchanged(p)
  /\ ev' = [ev EXCEPT ![h] = file[p]]
  /\ from' = [from EXCEPT ![h] = p]
  /\ Goto(h, "append")
  /\ UNCHANGED <<file, rowVars, wf, acked, todo, queue, edits, faults, delivered>>

\* A signed POST; GitHub may send a delivery any number of times.
Post(r, d) ==
  /\ r \in Requests /\ pc[r] = "idle"
  /\ ev' = [ev EXCEPT ![r] = d]
  /\ Goto(r, "append")
  /\ UNCHANGED <<file, rowVars, wf, acked, from, todo, queue, edits, faults,
                 delivered>>

-----------------------------------------------------------------------------
(* RelayPipeline.accept.                                                     *)

\* Where a caller of accept goes on.
After(a) == IF a \in Hosts THEN "cursor" ELSE "record"

\* appendEvent found the id with another payload, or routed already.
Collides(a) == event[ev[a]].path # from[a]
DuplicateOnSight(a) == TRUE
Duplicate(a) == ev[a] \in routed

\* INSERT OR IGNORE, and what accept makes of its outcome.
Append(a) ==
  /\ pc[a] = "append"
  /\ IF ev[a] \in Stored
     THEN /\ Goto(a, IF Collides(a) \/ Duplicate(a) THEN After(a) ELSE "route")
          /\ UNCHANGED <<event, last>>
     ELSE /\ event' = [event EXCEPT ![ev[a]] = [seq |-> last + 1, path |-> from[a]]]
          /\ last' = last + 1
          /\ Goto(a, "route")
  /\ UNCHANGED <<file, cursor, routed, jobs, wf, acked, ev, from, todo, queue,
                 edits, faults, delivered>>

\* createProductionRoute: a task makes a job, a trigger only if its workflow is
\* VERIFYING or PAUSED.
MakesJob(e) ==
  e \notin Silent /\ (e \in Contents \/ wf[WorkflowOf[e]] = "PARKED")

\* A drain is a host's route of an event it did not take from a path.
Draining(a) == a \in Hosts /\ from[a] = None

MarkFirst(a) ==
  /\ pc[a] = "route"
  /\ routed' = routed \cup {ev[a]}
  /\ Goto(a, "mark")
  /\ UNCHANGED <<file, cursor, event, last, jobs, wf, acked, ev, from, todo,
                 queue, edits, faults, delivered>>

Route(a) ==
  /\ pc[a] = "route"
  /\ jobs' = IF MakesJob(ev[a]) THEN jobs \cup {ev[a]} ELSE jobs
  /\ delivered' = delivered \cup {ev[a]}
  /\ Goto(a, "mark")
  /\ UNCHANGED <<file, cursor, event, last, routed, wf, acked, ev, from, todo,
                 queue, edits, faults>>

MarkRouted(a) ==
  /\ pc[a] = "mark"
  /\ routed' = routed \cup {ev[a]}
  /\ Goto(a, IF Draining(a) THEN "drain" ELSE After(a))
  /\ UNCHANGED <<file, cursor, event, last, jobs, wf, acked, ev, from, todo,
                 queue, edits, faults, delivered>>

\* setCursor ends the scan of a path, whatever became of the event.
SetCursor(h) ==
  /\ pc[h] = "cursor"
  /\ cursor' = [cursor EXCEPT ![from[h]] = ev[h]]
  /\ todo' = [todo EXCEPT ![h] = @ \ {from[h]}]
  /\ ev' = [ev EXCEPT ![h] = None]
  /\ from' = [from EXCEPT ![h] = None]
  /\ Goto(h, "scan")
  /\ UNCHANGED <<file, event, last, routed, jobs, wf, acked, queue, edits, faults,
                 delivered>>

\* recordExternalDelivery, and a 2xx answer.
Record(r) ==
  /\ pc[r] = "record"
  /\ acked' = acked \cup {ev[r]}
  /\ ev' = [ev EXCEPT ![r] = None]
  /\ Goto(r, "idle")
  /\ UNCHANGED <<file, rowVars, wf, from, todo, queue, edits, faults, delivered>>

-----------------------------------------------------------------------------
(* RelayPipeline.drainPending, once for each workflow that has a row.        *)

StartDrain(h) ==
  /\ pc[h] = "scan" /\ todo[h] = {}
  /\ todo' = [todo EXCEPT ![h] = {w \in Workflows : wf[w] # "NONE"}]
  /\ ev' = [ev EXCEPT ![h] = None]
  /\ Goto(h, "drain")
  /\ UNCHANGED <<file, rowVars, wf, acked, from, queue, edits, faults, delivered>>

\* listPendingControlEvents.
ReadPending(h, w) ==
  /\ pc[h] = "drain" /\ queue[h] = {} /\ w \in todo[h]
  /\ todo' = [todo EXCEPT ![h] = @ \ {w}]
  /\ queue' = [queue EXCEPT ![h] = {e \in Pending : WorkflowOf[e] = w}]
  /\ UNCHANGED <<file, rowVars, wf, acked, pc, ev, from, edits, faults, delivered>>

\* ORDER BY sequence.
DrainAny(h, e) == e \in queue[h]
Earliest(h, e) ==
  e \in queue[h] /\ \A f \in queue[h] : event[e].seq <= event[f].seq

DrainNext(h, e) ==
  /\ pc[h] = "drain" /\ Earliest(h, e)
  /\ queue' = [queue EXCEPT ![h] = @ \ {e}]
  /\ ev' = [ev EXCEPT ![h] = e]
  /\ Goto(h, "route")
  /\ UNCHANGED <<file, rowVars, wf, acked, from, todo, edits, faults, delivered>>

EndDrain(h) ==
  /\ pc[h] = "drain" /\ queue[h] = {} /\ todo[h] = {}
  /\ ev' = [ev EXCEPT ![h] = None]
  /\ Goto(h, "idle")
  /\ UNCHANGED <<file, rowVars, wf, acked, from, todo, queue, edits, faults,
                 delivered>>

-----------------------------------------------------------------------------
(* Failures.                                                                 *)

Fault == faults < MaxFaults /\ faults' = faults + 1

\* A process that stops what it does: what it remembers is gone.
KeepPath(a) ==
  /\ ev' = [ev EXCEPT ![a] = None]
  /\ queue' = [h \in Hosts |-> IF h = a THEN {} ELSE queue[h]]
  /\ UNCHANGED from

Forget(a) ==
  /\ ev' = [ev EXCEPT ![a] = None]
  /\ from' = [from EXCEPT ![a] = None]
  /\ queue' = [h \in Hosts |-> IF h = a THEN {} ELSE queue[h]]

\* The route throws.  An observer's error leaves the cursor and the scan goes
\* on with the next source; a drain stops; a request is answered 503.
RouteFails(a) ==
  /\ Fault
  /\ pc[a] = "route"
  /\ Forget(a)
  /\ IF a \in Hosts /\ ~Draining(a)
     THEN /\ todo' = [todo EXCEPT ![a] = @ \ {from[a]}]
          /\ Goto(a, "scan")
     ELSE /\ todo' = [h \in Hosts |-> IF h = a THEN {} ELSE todo[h]]
          /\ Goto(a, "idle")
  /\ UNCHANGED <<file, rowVars, wf, acked, edits, delivered>>

Crash(a) ==
  /\ Fault
  /\ pc[a] # "idle"
  /\ Forget(a)
  /\ todo' = [h \in Hosts |-> IF h = a THEN {} ELSE todo[h]]
  /\ Goto(a, "idle")
  /\ UNCHANGED <<file, rowVars, wf, acked, edits, delivered>>

-----------------------------------------------------------------------------
Accept(a) == Append(a) \/ Route(a) \/ MarkRouted(a)

Cycle(h) ==
  \/ Begin(h) \/ StartDrain(h) \/ EndDrain(h) \/ SetCursor(h) \/ Accept(h)
  \/ \E p \in Paths : PassBy(h, p) \/ Look(h, p)
  \/ \E w \in Workflows : ReadPending(h, w)
  \/ \E e \in Events : DrainNext(h, e)

Serve(r) == Accept(r) \/ Record(r)

Next ==
  \/ \E p \in Paths, c \in Contents \cup {None} : Edit(p, c)
  \/ \E w \in Workflows, state \in {"RUNNING", "PARKED", "OVER"} : Work(w, state)
  \/ \E h \in Hosts : Cycle(h)
  \/ \E r \in Requests : Serve(r) \/ \E d \in Deliveries : Post(r, d)
  \/ \E a \in Actors : RouteFails(a) \/ Crash(a)

Spec == Init /\ [][Next]_vars

(* A host keeps cycling and a request is served.                             *)
FairSpec ==
  /\ Spec
  /\ \A h \in Hosts : WF_vars(Cycle(h))
  /\ \A r \in Requests : WF_vars(Serve(r))

-----------------------------------------------------------------------------
(* Properties.                                                               *)

\* Whatever crashes, and whoever else carries the same event, a task event is
\* marked routed only when its job exists.  (accept, drainPending)
RoutedHasJob == \A e \in (Contents \ Silent) \cap routed : e \in jobs

\* A cursor never hides a revision that is not on record, and once it covers
\* the path the event was stored from, the event is routed.  (scanOnce)
CursorCovers ==
  \A p \in Paths :
    cursor[p] # None =>
      /\ cursor[p] \in Stored
      /\ event[cursor[p]].path = p => cursor[p] \in routed

\* GitHub is told that a delivery succeeded only when it needs no redelivery.
\* (GitHubWebhookSource.accept, createGitHubIngressServer)
AckedIsRouted == acked \subseteq routed

\* A drain hands an event over only after every earlier event of its workflow
\* that was pending, although other processes store, route, drain and fail at the
\* same time.  (drainPending, listPendingControlEvents)
DrainInOrder ==
  [][\A h \in Hosts :
       pc[h] = "route" /\ pc'[h] = "mark" /\ Draining(h) =>
         \A e \in Pending : WorkflowOf[e] = WorkflowOf[ev[h]]
                              => event[e].seq >= event[ev[h]].seq]_vars

Relay == INSTANCE Outbox WITH offered <- Stored, marked <- routed

\* The events table is an outbox: stored, then delivered, then marked, and
\* nothing taken back.  (appendEvent, accept, markEventRouted)
OutboxSpec == Relay!Spec

\* A task file that stays gets its job, over crashes and failing routes.
\* (FileContractObserver, RelayPipeline)
FileDispatched ==
  \A p \in Paths, c \in Contents \ Silent :
    (file[p] = c) ~> (file[p] # c \/ c \in jobs)

\* docs/architecture.md:7: failed delivery remains pending and is replayed: a
\* task that was stored and not delivered gets its job in the end, if only some
\* watched file still holds it.
PendingReplayed ==
  \A c \in Contents \ Silent :
    (c \in Pending \ jobs) ~> (c \in jobs \/ \A p \in Paths : file[p] # c)

=============================================================================
