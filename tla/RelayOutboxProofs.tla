------------------------- MODULE RelayOutboxProofs --------------------------
(***************************************************************************)
(* Proofs about RelayOutbox, for any hosts, requests, paths and events.    *)
(*                                                                         *)
(* The tables alone do not show that the next step is right: what a        *)
(* process is about to do has to be right already.  StageInv says what is  *)
(* true of an event at each stage of its way, ReachInv what is true when a *)
(* caller of accept records its outcome, and QueueInv that a drain's queue *)
(* stays ahead of everything that is stored later.                         *)
(***************************************************************************)
EXTENDS RelayOutbox, TLAPS

\* Where an event may come from.
SourceInv ==
  /\ \A r \in Requests : /\ from[r] = None
                         /\ pc[r] \in {"idle", "append", "route", "mark", "record"}
                         /\ pc[r] # "idle" => ev[r] \in Deliveries
  /\ \A h \in Hosts : /\ from[h] # None => ev[h] \in Contents
                      /\ pc[h] = "append" => from[h] # None
                      /\ pc[h] # "record"
  /\ \A d \in Deliveries : event[d].path = None

\* What the stages of an event rest on.
StageInv ==
  /\ routed \subseteq delivered /\ delivered \subseteq Stored
  /\ \A e \in (Contents \ Silent) \cap delivered : e \in jobs
  /\ \A a \in Actors : /\ pc[a] \in {"route", "mark"} => ev[a] \in Stored
                       /\ pc[a] = "mark" => ev[a] \in delivered
  /\ \A h \in Hosts : queue[h] \subseteq Stored

\* An event is on record, and routed unless another path is to answer for it.
Reached(p, e) == e \in Stored /\ (event[e].path = p => e \in routed)

ReachInv ==
  /\ \A a \in Actors : pc[a] \in {"cursor", "record"} => Reached(from[a], ev[a])
  /\ CursorCovers /\ AckedIsRouted

\* e may be handed over next: nothing pending of its workflow comes before it.
Ahead(e, f) == WorkflowOf[f] = WorkflowOf[e] => event[f].seq >= event[e].seq

QueueInv ==
  /\ \A e \in Events : event[e].seq <= last
  /\ \A h \in Hosts : \A e \in queue[h], f \in Pending :
       \/ f \in queue[h]
       \/ pc[h] \in {"route", "mark"} /\ f = ev[h]
       \/ Ahead(e, f)
  /\ \A h \in Hosts : pc[h] = "route" /\ Draining(h)
                        => \A f \in Pending : Ahead(ev[h], f)

Inv == TypeOK /\ SourceInv /\ StageInv /\ ReachInv /\ QueueInv

-----------------------------------------------------------------------------
\* Every step keeps every variable in its type.
LEMMA TypeStep == TypeOK /\ SourceInv /\ [Next]_vars => TypeOK'
  <1> SUFFICES ASSUME TypeOK, SourceInv, [Next]_vars PROVE TypeOK'
    OBVIOUS
  <1> USE ActorAssumption, EventAssumption, PathAssumption, BoundAssumption
  <1>1. ASSUME NEW p \in Paths, NEW c \in Contents \cup {None}, Edit(p, c)
        PROVE  TypeOK'
    BY <1>1 DEF TypeOK, Edit, rowVars, procVars
  <1>2. ASSUME NEW w \in Workflows, NEW state \in {"RUNNING", "PARKED", "OVER"},
               Work(w, state)
        PROVE  TypeOK'
    BY <1>2 DEF TypeOK, Work, rowVars, procVars
  <1>3. ASSUME NEW h \in Hosts, Begin(h) PROVE TypeOK'
    BY <1>3 DEF TypeOK, Begin, Goto, Pcs, Actors, rowVars
  <1>4. ASSUME NEW h \in Hosts, NEW p \in Paths, PassBy(h, p) PROVE TypeOK'
    BY <1>4 DEF TypeOK, PassBy, rowVars
  <1>5. ASSUME NEW h \in Hosts, NEW p \in Paths, Look(h, p) PROVE TypeOK'
    BY <1>5 DEF TypeOK, Look, Unchanged, Goto, Pcs, Actors, Events, rowVars
  <1>6. ASSUME NEW r \in Requests, NEW d \in Deliveries, Post(r, d) PROVE TypeOK'
    BY <1>6 DEF TypeOK, Post, Goto, Pcs, Actors, Events, rowVars
  <1>7. ASSUME NEW a \in Actors, Append(a) PROVE TypeOK'
    <2>1. ev[a] \in Events /\ from[a] \in Paths \cup {None}
      BY <1>7 DEF TypeOK, Append
    <2>2. /\ event' \in [Events -> [seq : Nat, path : Paths \cup {None}]]
          /\ last' \in Nat
      BY <1>7, <2>1 DEF TypeOK, Append
    <2>3. pc' \in [Actors -> Pcs]
      BY <1>7 DEF TypeOK, Append, After, Goto, Pcs
    <2>4. \A b \in Actors :
            /\ pc'[b] \notin {"idle", "scan", "drain"} => ev[b] # None
            /\ pc'[b] \in {"idle", "scan", "drain"} => from[b] = None
            /\ pc'[b] = "cursor" => from[b] # None
      BY <1>7 DEF TypeOK, SourceInv, Append, After, Goto, Actors
    <2> QED BY <1>7, <2>2, <2>3, <2>4 DEF TypeOK, Append
  <1>8. ASSUME NEW a \in Actors, Route(a) PROVE TypeOK'
    BY <1>8 DEF TypeOK, Route, Goto, Pcs, Actors
  <1>9. ASSUME NEW a \in Actors, MarkRouted(a) PROVE TypeOK'
    BY <1>9 DEF TypeOK, SourceInv, MarkRouted, After, Draining, Goto, Pcs, Actors
  <1>10. ASSUME NEW h \in Hosts, SetCursor(h) PROVE TypeOK'
    <2>1. ev[h] \in Contents
      BY <1>10 DEF TypeOK, SourceInv, SetCursor, Actors
    <2> QED BY <1>10, <2>1 DEF TypeOK, SetCursor, Goto, Pcs, Actors
  <1>11. ASSUME NEW r \in Requests, Record(r) PROVE TypeOK'
    BY <1>11 DEF TypeOK, SourceInv, Record, Goto, Pcs, Actors, rowVars
  <1>12. ASSUME NEW h \in Hosts, StartDrain(h) PROVE TypeOK'
    BY <1>12 DEF TypeOK, StartDrain, Goto, Pcs, Actors, rowVars
  <1>13. ASSUME NEW h \in Hosts, NEW w \in Workflows, ReadPending(h, w) PROVE TypeOK'
    BY <1>13 DEF TypeOK, ReadPending, Pending, Stored, rowVars
  <1>14. ASSUME NEW h \in Hosts, NEW e \in Events, DrainNext(h, e) PROVE TypeOK'
    BY <1>14 DEF TypeOK, DrainNext, Goto, Pcs, Actors, rowVars
  <1>15. ASSUME NEW h \in Hosts, EndDrain(h) PROVE TypeOK'
    BY <1>15 DEF TypeOK, EndDrain, Goto, Pcs, Actors, rowVars
  <1>16. ASSUME NEW a \in Actors, RouteFails(a) PROVE TypeOK'
    <2>0. pc' \in [Actors -> Pcs]
      BY <1>16 DEF TypeOK, RouteFails, Goto, Pcs
    <2>1. /\ todo' \in [Hosts -> SUBSET (Paths \cup Workflows)]
          /\ pc'[a] \in {"scan", "idle"}
          /\ \A b \in Actors \ {a} : pc'[b] = pc[b]
      BY <1>16 DEF TypeOK, RouteFails, Goto
    <2>2. /\ ev' \in [Actors -> Events \cup {None}]
          /\ from' \in [Actors -> Paths \cup {None}]
          /\ queue' \in [Hosts -> SUBSET Events]
          /\ ev'[a] = None /\ from'[a] = None
          /\ \A b \in Actors \ {a} : ev'[b] = ev[b] /\ from'[b] = from[b]
      BY <1>16 DEF TypeOK, RouteFails, Forget
    <2> QED BY <1>16, <2>0, <2>1, <2>2 DEF TypeOK, RouteFails, Fault, rowVars
  <1>17. ASSUME NEW a \in Actors, Crash(a) PROVE TypeOK'
    BY <1>17 DEF TypeOK, Crash, Fault, Forget, Goto, Pcs, Actors, rowVars
  <1>18. CASE UNCHANGED vars
    BY <1>18 DEF TypeOK, vars
  <1> QED
    BY <1>1, <1>2, <1>3, <1>4, <1>5, <1>6, <1>7, <1>8, <1>9, <1>10, <1>11, <1>12,
       <1>13, <1>14, <1>15, <1>16, <1>17, <1>18
    DEF Next, Cycle, Serve, Accept, Actors
\* A process that fails is back at the start of its cycle or its scan, and has
\* forgotten its event; the tables stay.
LEMMA FailureGoes ==
  ASSUME TypeOK, NEW a \in Actors, RouteFails(a) \/ Crash(a)
  PROVE  /\ pc'[a] = "idle" \/ (a \in Hosts /\ pc'[a] = "scan")
         /\ from'[a] = None
         /\ \A b \in Actors \ {a} : /\ pc'[b] = pc[b]
                                    /\ ev'[b] = ev[b] /\ from'[b] = from[b]
         /\ \A h \in Hosts : queue'[h] = IF h = a THEN {} ELSE queue[h]
         /\ UNCHANGED <<rowVars, wf, acked, delivered>>
  <1>1. /\ from'[a] = None
        /\ \A b \in Actors \ {a} : ev'[b] = ev[b] /\ from'[b] = from[b]
        /\ \A h \in Hosts : queue'[h] = IF h = a THEN {} ELSE queue[h]
    BY DEF TypeOK, RouteFails, Crash, Forget
  <1>2. CASE Crash(a)
    BY <1>1, <1>2 DEF TypeOK, Crash, Goto
  <1>3. CASE RouteFails(a) /\ a \in Hosts /\ ~Draining(a)
    BY <1>1, <1>3 DEF TypeOK, RouteFails, Goto
  <1>4. CASE RouteFails(a) /\ ~(a \in Hosts /\ ~Draining(a))
    BY <1>1, <1>4 DEF TypeOK, RouteFails, Goto
  <1> QED BY <1>2, <1>3, <1>4

\* A request carries a delivery, a scan a revision of the path it names.
LEMMA SourceStep == TypeOK /\ SourceInv /\ [Next]_vars => SourceInv'
  <1> SUFFICES ASSUME TypeOK, SourceInv, [Next]_vars PROVE SourceInv'
    OBVIOUS
  <1> USE ActorAssumption, EventAssumption, PathAssumption
  <1>1. ASSUME NEW h \in Hosts, Begin(h) \/ StartDrain(h) \/ EndDrain(h)
        PROVE  SourceInv'
    BY <1>1 DEF TypeOK, SourceInv, Begin, StartDrain, EndDrain, Goto, Actors, rowVars
  <1>2. ASSUME NEW h \in Hosts, NEW p \in Paths, Look(h, p) PROVE SourceInv'
    BY <1>2 DEF TypeOK, SourceInv, Look, Unchanged, Goto, Actors, rowVars
  <1>3. ASSUME NEW r \in Requests, NEW d \in Deliveries, Post(r, d) PROVE SourceInv'
    BY <1>3 DEF TypeOK, SourceInv, Post, Goto, Actors, Events, rowVars
  <1>4. ASSUME NEW a \in Actors, Append(a) PROVE SourceInv'
    <2>1. ev[a] \in Events /\ (ev[a] \in Deliveries => from[a] = None)
      BY <1>4 DEF TypeOK, SourceInv, Append, Actors
    <2>2. \A d \in Deliveries : event'[d].path = None
      BY <1>4, <2>1 DEF TypeOK, SourceInv, Append, Events
    <2>3. /\ pc' = [pc EXCEPT ![a] = pc'[a]]
          /\ pc'[a] = "route" \/ pc'[a] = After(a)
      BY <1>4 DEF TypeOK, Append, Goto
    <2> QED BY <1>4, <2>2, <2>3 DEF TypeOK, SourceInv, Append, After, Actors
  <1>5. ASSUME NEW a \in Actors, Route(a) \/ MarkRouted(a) PROVE SourceInv'
    BY <1>5 DEF TypeOK, SourceInv, Route, MarkRouted, After, Draining, Goto, Actors
  <1>6. ASSUME NEW h \in Hosts, SetCursor(h) PROVE SourceInv'
    BY <1>6 DEF TypeOK, SourceInv, SetCursor, Goto, Actors
  <1>7. ASSUME NEW r \in Requests, Record(r) PROVE SourceInv'
    BY <1>7 DEF TypeOK, SourceInv, Record, Goto, Actors, rowVars
  <1>8. ASSUME NEW h \in Hosts, NEW e \in Events, DrainNext(h, e) PROVE SourceInv'
    BY <1>8 DEF TypeOK, SourceInv, DrainNext, Goto, Actors, rowVars
  <1>9. ASSUME NEW a \in Actors, RouteFails(a) \/ Crash(a) PROVE SourceInv'
    <2>1. /\ pc'[a] = "idle" \/ (a \in Hosts /\ pc'[a] = "scan")
          /\ from'[a] = None
          /\ \A b \in Actors \ {a} : /\ pc'[b] = pc[b]
                                     /\ ev'[b] = ev[b] /\ from'[b] = from[b]
      BY <1>9, FailureGoes
    <2>2. event' = event
      BY <1>9, FailureGoes DEF rowVars
    <2> QED BY <2>1, <2>2 DEF SourceInv, Actors
  <1>10. CASE UNCHANGED <<event, pc, ev, from>>
    BY <1>10 DEF SourceInv
  <1> QED
    BY <1>1, <1>2, <1>3, <1>4, <1>5, <1>6, <1>7, <1>8, <1>9, <1>10
    DEF Next, Cycle, Serve, Accept, Actors, Edit, Work, PassBy, ReadPending, vars,
        rowVars, procVars

\* An event is stored before it is handed over, has its job before it is marked.
LEMMA StageStep == TypeOK /\ StageInv /\ [Next]_vars => StageInv'
  <1> SUFFICES ASSUME TypeOK, StageInv, [Next]_vars PROVE StageInv'
    OBVIOUS
  <1> USE ActorAssumption, EventAssumption, PathAssumption
  <1>1. ASSUME NEW h \in Hosts, Begin(h) \/ StartDrain(h) \/ EndDrain(h) \/ SetCursor(h)
        PROVE  StageInv'
    BY <1>1 DEF TypeOK, StageInv, Begin, StartDrain, EndDrain, SetCursor, Goto,
                Actors, Stored, rowVars
  <1>2. ASSUME NEW h \in Hosts, NEW p \in Paths, Look(h, p) PROVE StageInv'
    BY <1>2 DEF TypeOK, StageInv, Look, Goto, Actors, Stored, rowVars
  <1>3. ASSUME NEW r \in Requests, NEW d \in Deliveries, Post(r, d) PROVE StageInv'
    BY <1>3 DEF TypeOK, StageInv, Post, Goto, Actors, Stored, rowVars
  <1>4. ASSUME NEW a \in Actors, Append(a) PROVE StageInv'
    <2>1. Stored' = Stored \cup {ev[a]}
      BY <1>4 DEF TypeOK, Append, Stored
    <2>2. /\ pc' = [pc EXCEPT ![a] = pc'[a]]
          /\ pc'[a] # "mark"
      BY <1>4 DEF TypeOK, Append, After, Goto
    <2> QED BY <1>4, <2>1, <2>2 DEF TypeOK, StageInv, Append
  <1>5. ASSUME NEW a \in Actors, Route(a) PROVE StageInv'
    BY <1>5 DEF TypeOK, StageInv, Route, MakesJob, Goto, Stored
  <1>6. ASSUME NEW a \in Actors, MarkRouted(a) PROVE StageInv'
    BY <1>6 DEF TypeOK, StageInv, MarkRouted, After, Goto, Stored
  <1>7. ASSUME NEW h \in Hosts, NEW w \in Workflows, ReadPending(h, w) PROVE StageInv'
    BY <1>7 DEF TypeOK, StageInv, ReadPending, Pending, Stored, rowVars
  <1>8. ASSUME NEW h \in Hosts, NEW e \in Events, DrainNext(h, e) PROVE StageInv'
    BY <1>8 DEF TypeOK, StageInv, DrainNext, Earliest, Goto, Actors, Stored, rowVars
  <1>9. ASSUME NEW a \in Actors, RouteFails(a) \/ Crash(a) PROVE StageInv'
    <2>1. /\ UNCHANGED <<event, routed, jobs, delivered>>
          /\ pc'[a] \notin {"route", "mark"}
          /\ \A b \in Actors \ {a} : pc'[b] = pc[b] /\ ev'[b] = ev[b]
          /\ \A h \in Hosts : queue'[h] = IF h = a THEN {} ELSE queue[h]
      BY <1>9, FailureGoes DEF rowVars
    <2>2. Stored' = Stored
      BY <2>1 DEF Stored
    <2> QED BY <2>1, <2>2 DEF StageInv
  <1>10. ASSUME NEW r \in Requests, Record(r) PROVE StageInv'
    BY <1>10 DEF TypeOK, StageInv, Record, Goto, Actors, Stored, rowVars
  <1>11. CASE UNCHANGED <<event, routed, jobs, delivered, pc, ev, queue>>
    BY <1>11 DEF StageInv, Stored
  <1> QED
    BY <1>1, <1>2, <1>3, <1>4, <1>5, <1>6, <1>7, <1>8, <1>9, <1>10, <1>11
    DEF Next, Cycle, Serve, Accept, Actors, Edit, Work, PassBy, vars, rowVars, procVars
\* Whoever goes on to a cursor or an answer has an event that needs nobody else.
LEMMA ReachStep ==
  TypeOK /\ SourceInv /\ StageInv /\ ReachInv /\ [Next]_vars => ReachInv'
  <1> SUFFICES ASSUME TypeOK, SourceInv, StageInv, ReachInv, [Next]_vars
               PROVE  ReachInv'
    OBVIOUS
  <1> USE ActorAssumption, EventAssumption, PathAssumption
  <1>1. ASSUME NEW h \in Hosts, NEW p, NEW e,
               \/ Begin(h) \/ StartDrain(h) \/ EndDrain(h)
               \/ Look(h, p) \/ DrainNext(h, e)
        PROVE  ReachInv'
    <2>1. /\ UNCHANGED <<event, routed, cursor, acked>>
          /\ pc' = [pc EXCEPT ![h] = pc'[h]] /\ pc'[h] \notin {"cursor", "record"}
          /\ \A a \in Actors \ {h} : ev'[a] = ev[a] /\ from'[a] = from[a]
      BY <1>1 DEF TypeOK, Begin, StartDrain, EndDrain, Look, DrainNext, Goto, Actors,
                  rowVars
    <2> QED BY <2>1 DEF TypeOK, ReachInv, Reached, CursorCovers, AckedIsRouted,
                        Stored, Actors
  <1>2. ASSUME NEW r \in Requests, NEW d \in Deliveries, Post(r, d) PROVE ReachInv'
    BY <1>2 DEF TypeOK, ReachInv, Reached, CursorCovers, AckedIsRouted, Stored, Post,
                Goto, Actors, rowVars
  <1>3. ASSUME NEW a \in Actors, Append(a) PROVE ReachInv'
    <2>1. \A p \in Paths \cup {None}, e \in Events : Reached(p, e) => Reached(p, e)'
      BY <1>3 DEF TypeOK, Append, Reached, Stored
    <2>2. pc'[a] \in {"cursor", "record"} => Reached(from[a], ev[a])
      BY <1>3 DEF TypeOK, Append, Collides, Duplicate, Reached, Goto
    <2>3. CursorCovers'
      BY <1>3, <2>1 DEF TypeOK, ReachInv, CursorCovers, Append, Stored, Events
    <2> QED BY <1>3, <2>1, <2>2, <2>3
            DEF TypeOK, ReachInv, AckedIsRouted, Append, Goto
  <1>4. ASSUME NEW a \in Actors, Route(a) PROVE ReachInv'
    BY <1>4 DEF TypeOK, ReachInv, Reached, CursorCovers, AckedIsRouted, Stored,
                Route, Goto
  <1>5. ASSUME NEW a \in Actors, MarkRouted(a) PROVE ReachInv'
    <2>1. ev[a] \in Stored
      BY <1>5 DEF StageInv, MarkRouted
    <2> QED BY <1>5, <2>1 DEF TypeOK, ReachInv, Reached, CursorCovers,
                              AckedIsRouted, Stored, MarkRouted, Goto
  <1>6. ASSUME NEW h \in Hosts, SetCursor(h) PROVE ReachInv'
    <2>1. Reached(from[h], ev[h])
      BY <1>6 DEF ReachInv, SetCursor, Actors
    <2> QED BY <1>6, <2>1 DEF TypeOK, ReachInv, Reached, CursorCovers,
                              AckedIsRouted, Stored, SetCursor, Goto, Actors
  <1>7. ASSUME NEW r \in Requests, Record(r) PROVE ReachInv'
    <2>1. ev[r] \in routed
      BY <1>7 DEF TypeOK, SourceInv, ReachInv, Reached, Record, Actors
    <2> QED BY <1>7, <2>1 DEF TypeOK, ReachInv, Reached, CursorCovers,
                              AckedIsRouted, Stored, Record, Goto, Actors, rowVars
  <1>8. ASSUME NEW a \in Actors, RouteFails(a) \/ Crash(a) PROVE ReachInv'
    BY <1>8, FailureGoes DEF TypeOK, ReachInv, Reached, CursorCovers, AckedIsRouted,
                             Stored, rowVars
  <1>9. CASE UNCHANGED <<event, routed, cursor, acked, pc, ev, from>>
    BY <1>9 DEF ReachInv, Reached, CursorCovers, AckedIsRouted, Stored
  <1> QED
    BY <1>1, <1>2, <1>3, <1>4, <1>5, <1>6, <1>7, <1>8, <1>9
    DEF Next, Cycle, Serve, Accept, Actors, Edit, Work, PassBy, ReadPending, vars,
        rowVars, procVars
\* What is stored while a drain works comes after what the drain has read, and
\* what the drain does not hold any more is routed.
LEMMA QueueStep ==
  TypeOK /\ SourceInv /\ StageInv /\ QueueInv /\ [Next]_vars => QueueInv'
  <1> SUFFICES ASSUME TypeOK, SourceInv, StageInv, QueueInv, [Next]_vars
               PROVE  QueueInv'
    OBVIOUS
  <1> USE ActorAssumption, EventAssumption, PathAssumption
  <1>1. ASSUME NEW a \in Actors,
               UNCHANGED <<event, last, routed, queue>>,
               pc[a] \notin {"route", "mark"}, pc'[a] \notin {"route", "mark"},
               \A b \in Actors \ {a} : /\ pc'[b] = pc[b]
                                       /\ ev'[b] = ev[b] /\ from'[b] = from[b]
        PROVE  QueueInv'
    BY <1>1 DEF QueueInv, Ahead, Pending, Stored, Draining, Actors
  <1>2. ASSUME NEW h \in Hosts, NEW p,
               \/ Begin(h) \/ StartDrain(h) \/ EndDrain(h) \/ SetCursor(h) \/ Look(h, p)
        PROVE  QueueInv'
    <2>1. UNCHANGED <<event, last, routed, queue>>
      BY <1>2 DEF Begin, StartDrain, EndDrain, SetCursor, Look, rowVars
    <2>2. pc[h] \notin {"route", "mark"} /\ pc'[h] \notin {"route", "mark"}
      BY <1>2 DEF TypeOK, Actors, Begin, StartDrain, EndDrain, SetCursor, Look, Goto
    <2>3. \A b \in Actors \ {h} : pc'[b] = pc[b] /\ ev'[b] = ev[b] /\ from'[b] = from[b]
      BY <1>2 DEF TypeOK, Begin, StartDrain, EndDrain, SetCursor, Look, Goto
    <2> QED BY <1>1, <2>1, <2>2, <2>3 DEF Actors
  <1>3. ASSUME NEW r \in Requests, Record(r) \/ \E d \in Deliveries : Post(r, d)
        PROVE  QueueInv'
    <2>1. UNCHANGED <<event, last, routed, queue>>
      BY <1>3 DEF Record, Post, rowVars
    <2>2. pc[r] \notin {"route", "mark"} /\ pc'[r] \notin {"route", "mark"}
      BY <1>3 DEF TypeOK, Actors, Record, Post, Goto
    <2>3. \A b \in Actors \ {r} : pc'[b] = pc[b] /\ ev'[b] = ev[b] /\ from'[b] = from[b]
      BY <1>3 DEF TypeOK, Record, Post, Goto
    <2> QED BY <1>1, <2>1, <2>2, <2>3 DEF Actors
  <1>4. ASSUME NEW a \in Actors, Append(a) PROVE QueueInv'
    <2>1. last \in Nat /\ \A e \in Events : event[e].seq \in Nat
      BY DEF TypeOK
    <2>2. /\ last' \in Nat /\ last' >= last
          /\ \A e \in Stored : event'[e] = event[e]
          /\ \A e \in Pending' : e \in Pending \/ event'[e].seq = last + 1
          /\ \A e \in Events : event'[e].seq <= last'
      <3>1. CASE ev[a] \in Stored
        BY <1>4, <2>1, <3>1 DEF QueueInv, Append, Pending, Stored
      <3>2. CASE ev[a] \notin Stored
        <4>1. /\ ev[a] \in Events /\ last' = last + 1 /\ routed' = routed
              /\ event' = [event EXCEPT ![ev[a]] = [seq |-> last + 1, path |-> from[a]]]
          BY <1>4, <3>2 DEF TypeOK, Append
        <4>2. /\ event'[ev[a]].seq = last + 1
              /\ \A e \in Events \ {ev[a]} : event'[e] = event[e]
          BY <4>1 DEF TypeOK
        <4> QED BY <2>1, <3>2, <4>1, <4>2 DEF QueueInv, Pending, Stored
      <3> QED BY <3>1, <3>2
    <2>3. /\ pc[a] = "append" /\ pc'[a] # "mark"
          /\ \A b \in Actors \ {a} : pc'[b] = pc[b]
          /\ UNCHANGED <<routed, ev, from, queue>>
      BY <1>4 DEF TypeOK, Append, After, Goto
    <2>4. \A e \in Stored, f \in Pending' : \/ f \in Pending /\ (Ahead(e, f) => Ahead(e, f)')
                                            \/ Ahead(e, f)'
      BY <2>1, <2>2, EventAssumption DEF Ahead, QueueInv, Stored, Pending
    <2>5. ~Draining(a)
      BY <2>3 DEF SourceInv, Draining
    <2>6. \A h \in Hosts : \A e \in queue'[h], f \in Pending' :
            \/ f \in queue'[h]
            \/ pc'[h] \in {"route", "mark"} /\ f = ev'[h]
            \/ Ahead(e, f)'
      BY <2>3, <2>4 DEF QueueInv, StageInv, Actors
    <2>7. \A h \in Hosts : pc'[h] = "route" /\ Draining(h)'
                            => \A f \in Pending' : Ahead(ev[h], f)'
      BY <2>3, <2>4, <2>5 DEF QueueInv, StageInv, Draining, Actors
    <2> QED BY <2>2, <2>3, <2>6, <2>7 DEF QueueInv, Ahead
  <1>5. ASSUME NEW a \in Actors, Route(a) PROVE QueueInv'
    BY <1>5 DEF TypeOK, QueueInv, Ahead, Pending, Stored, Draining, Route, Goto, Actors
  <1>6. ASSUME NEW a \in Actors, MarkRouted(a) PROVE QueueInv'
    <2>1. Pending' = Pending \ {ev[a]}
      BY <1>6 DEF MarkRouted, Pending, Stored
    <2>2. /\ pc'[a] \notin {"route", "mark"}
          /\ \A b \in Actors \ {a} : pc'[b] = pc[b]
          /\ UNCHANGED <<event, last, ev, from, queue>>
      BY <1>6 DEF TypeOK, MarkRouted, After, Goto
    <2> QED BY <2>1, <2>2 DEF QueueInv, Ahead, Draining, Actors
  <1>7. ASSUME NEW h \in Hosts, NEW w \in Workflows, ReadPending(h, w) PROVE QueueInv'
    <2>1. /\ UNCHANGED <<event, last, routed, pc, ev, from>>
          /\ queue'[h] = {e \in Pending : WorkflowOf[e] = w}
          /\ \A g \in Hosts \ {h} : queue'[g] = queue[g]
      BY <1>7 DEF TypeOK, ReadPending, rowVars
    <2> QED BY <2>1 DEF QueueInv, Ahead, Pending, Stored, Draining
  <1>8. ASSUME NEW h \in Hosts, NEW e \in Events, DrainNext(h, e) PROVE QueueInv'
    <2>1. /\ UNCHANGED <<event, last, routed, from>>
          /\ pc[h] = "drain" /\ pc'[h] = "route" /\ ev'[h] = e
          /\ queue'[h] = queue[h] \ {e}
          /\ \A b \in Actors \ {h} : pc'[b] = pc[b] /\ ev'[b] = ev[b]
          /\ \A g \in Hosts \ {h} : queue'[g] = queue[g]
      BY <1>8 DEF TypeOK, DrainNext, Goto, Actors, rowVars
    <2>2. \A f \in Pending : Ahead(e, f)
      BY <1>8, <2>1 DEF QueueInv, DrainNext, Earliest, Ahead, TypeOK
    <2> QED BY <2>1, <2>2 DEF QueueInv, Ahead, Pending, Stored, Draining, Actors
  <1>9. ASSUME NEW a \in Actors, RouteFails(a) \/ Crash(a) PROVE QueueInv'
    <2>1. /\ pc'[a] \notin {"route", "mark"}
          /\ \A b \in Actors \ {a} : /\ pc'[b] = pc[b]
                                     /\ ev'[b] = ev[b] /\ from'[b] = from[b]
          /\ \A h \in Hosts : queue'[h] = IF h = a THEN {} ELSE queue[h]
          /\ UNCHANGED <<event, last, routed>>
      BY <1>9, FailureGoes DEF rowVars
    <2> QED BY <2>1 DEF QueueInv, Ahead, Pending, Stored, Draining, Actors
  <1>10. CASE UNCHANGED <<event, last, routed, pc, ev, from, queue>>
    BY <1>10 DEF QueueInv, Ahead, Pending, Stored, Draining
  <1> QED
    BY <1>2, <1>3, <1>4, <1>5, <1>6, <1>7, <1>8, <1>9, <1>10
    DEF Next, Cycle, Serve, Accept, Actors, Edit, Work, PassBy, vars, rowVars, procVars
-----------------------------------------------------------------------------
LEMMA InitInv == Init => Inv
  <1> SUFFICES ASSUME Init PROVE Inv
    OBVIOUS
  <1> USE EventAssumption, BoundAssumption
  <1>1. TypeOK
    BY DEF Init, TypeOK, Pcs
  <1>2. Stored = {} /\ Pending = {}
    BY DEF Init, Stored, Pending
  <1>3. SourceInv /\ StageInv
    BY <1>2 DEF Init, SourceInv, StageInv, Actors, Events
  <1>4. ReachInv
    BY DEF Init, ReachInv, CursorCovers, AckedIsRouted
  <1>5. QueueInv
    BY <1>2 DEF Init, QueueInv
  <1> QED BY <1>1, <1>3, <1>4, <1>5 DEF Inv

LEMMA InvStep == Inv /\ [Next]_vars => Inv'
  BY TypeStep, SourceStep, StageStep, ReachStep, QueueStep DEF Inv

THEOREM Invariance == Spec => []Inv
  BY InitInv, InvStep, PTL DEF Spec

\* Every reachable state is well typed, and an event at every stage has its place.
THEOREM TypeCorrect == Spec => []TypeOK
  <1>1. Inv => TypeOK
    BY DEF Inv
  <1> QED BY <1>1, Invariance, PTL

\* A task event marked routed has its job.  (accept, drainPending)
THEOREM RoutedTasksHaveJobs == Spec => []RoutedHasJob
  <1>1. Inv => RoutedHasJob
    BY DEF Inv, StageInv, RoutedHasJob
  <1> QED BY <1>1, Invariance, PTL

\* A cursor hides no revision that is not on record, and none its own path must
\* still get routed.  (scanOnce)
THEOREM CursorsCover == Spec => []CursorCovers
  <1>1. Inv => CursorCovers
    BY DEF Inv, ReachInv
  <1> QED BY <1>1, Invariance, PTL

\* An answered delivery needs no redelivery.  (GitHubWebhookSource.accept)
THEOREM AnsweredAreRouted == Spec => []AckedIsRouted
  <1>1. Inv => AckedIsRouted
    BY DEF Inv, ReachInv
  <1> QED BY <1>1, Invariance, PTL

\* A drain keeps the order of what is pending.  (drainPending)
THEOREM DrainsKeepOrder == Spec => DrainInOrder
  <1>1. Inv /\ [Next]_vars =>
          [\A h \in Hosts :
             pc[h] = "route" /\ pc'[h] = "mark" /\ Draining(h) =>
               \A e \in Pending : WorkflowOf[e] = WorkflowOf[ev[h]]
                                   => event[e].seq >= event[ev[h]].seq]_vars
    BY DEF Inv, QueueInv, Ahead
  <1> QED BY <1>1, Invariance, PTL DEF Spec, DrainInOrder

-----------------------------------------------------------------------------
\* Every step offers, delivers or marks one event, or none of these.
LEMMA OutboxStep == Inv /\ [Next]_vars => [Relay!Next]_(Relay!vars)
  <1> SUFFICES ASSUME TypeOK, StageInv, [Next]_vars
               PROVE  [Relay!Next]_(Relay!vars)
    BY DEF Inv
  <1> USE DEF Relay!vars, Relay!Next
  <1>1. ASSUME NEW a \in Actors, Append(a) PROVE [Relay!Next]_(Relay!vars)
    <2>1. ev[a] \in Events
      BY <1>1 DEF TypeOK, Append
    <2>2. Stored' = Stored \cup {ev[a]}
      BY <1>1 DEF TypeOK, Append, Stored
    <2> QED BY <1>1, <2>1, <2>2 DEF Append, Relay!Offer
  <1>2. ASSUME NEW a \in Actors, Route(a) PROVE [Relay!Next]_(Relay!vars)
    <2>1. ev[a] \in Stored /\ Stored' = Stored
      BY <1>2 DEF StageInv, Route, Stored
    <2> QED BY <1>2, <2>1 DEF Route, Stored, Relay!Deliver
  <1>3. ASSUME NEW a \in Actors, MarkRouted(a) PROVE [Relay!Next]_(Relay!vars)
    <2>1. ev[a] \in delivered /\ ev[a] \in Events /\ Stored' = Stored
      BY <1>3 DEF TypeOK, StageInv, MarkRouted, Stored
    <2> QED BY <1>3, <2>1 DEF MarkRouted, Relay!Mark
  <1>4. ASSUME NEW a \in Actors, RouteFails(a) \/ Crash(a)
        PROVE  UNCHANGED <<event, routed, delivered>>
    BY <1>4, FailureGoes DEF rowVars
  <1>5. CASE UNCHANGED <<event, routed, delivered>>
    BY <1>5 DEF Stored
  <1> QED
    BY <1>1, <1>2, <1>3, <1>4, <1>5
    DEF Next, Cycle, Serve, Accept, Actors, Edit, Work, Begin, PassBy, Look, Post,
        SetCursor, Record, StartDrain, ReadPending, DrainNext, EndDrain, vars,
        rowVars, procVars

\* The events table is an outbox, whoever writes it and whatever fails.
THEOREM RelayImplementsOutbox == Spec => OutboxSpec
  <1>1. Init => Relay!Init
    BY DEF Init, Relay!Init, Stored
  <1> QED BY <1>1, OutboxStep, Invariance, PTL DEF Spec, Relay!Spec, OutboxSpec
=============================================================================
