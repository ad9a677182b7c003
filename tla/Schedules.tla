----------------------------- MODULE Schedules -----------------------------
(***************************************************************************)
(* ScheduleEngine (lib/runtime/scheduler-service.mjs) and the part of      *)
(* RuntimeHost.runOnce that turns its occurrences into jobs, over the      *)
(* tables schedules, schedule_occurrences and runtime_jobs. Several hosts  *)
(* tick at the same time: the service lease is taken later in the cycle.   *)
(* Each statement commits by itself, and a host may die between any two.   *)
(*                                                                         *)
(* Time is counted in units of which a schedule's every_ms is one or more. *)
(* (NextFromNow is a faulty form, used by no action.)                      *)
(***************************************************************************)
EXTENDS Naturals

CONSTANTS
  Hosts, ScheduleIds,
  Every,           \* every_ms of each schedule
  MaxTime, MaxUpserts, MaxTickFaults

\* "schedule add" takes a whole number of milliseconds, at least 100.
ASSUME ScheduleAssumption == Every \in [ScheduleIds -> Nat \ {0}] /\ MaxTime \in Nat

VARIABLES
  clock,
  nextAt,          \* schedules.next_at
  occurrences,     \* schedule_occurrences: <<schedule, due_at>>
  enqueued,        \* occurrences that have their job
  ticking,         \* each host's tick
  lost,            \* occurrences a host died with
  upserted,        \* schedules added again with "schedule add"
  upserts, tickFaults

scheduleVars == <<clock, nextAt, occurrences, enqueued, ticking, lost,
                  upserted, upserts, tickFaults>>

Due == [id : ScheduleIds, at : Nat]       \* a row as listDueSchedules read it
NotTicking == [step |-> "idle", due |-> {}, row |-> {}, found |-> {}]

ScheduleTypeOK ==
  /\ clock \in 0..MaxTime
  /\ nextAt \in [ScheduleIds -> Nat]
  /\ occurrences \subseteq ScheduleIds \X Nat
  /\ enqueued \subseteq occurrences /\ lost \subseteq occurrences
  /\ \A h \in Hosts :
       /\ ticking[h].step \in {"idle", "insert", "advance", "enqueue"}
       /\ ticking[h].due \cup ticking[h].row \subseteq Due
       /\ (ticking[h].row # {}) <=> (ticking[h].step = "advance")
       /\ ticking[h].found \subseteq occurrences
  /\ upserted \subseteq ScheduleIds

ScheduleInit ==
  /\ clock = 0
  /\ nextAt = [s \in ScheduleIds |-> Every[s]]
  /\ occurrences = {} /\ enqueued = {} /\ lost = {}
  /\ ticking = [h \in Hosts |-> NotTicking]
  /\ upserted = {} /\ upserts = 0 /\ tickFaults = 0

-----------------------------------------------------------------------------
TickTo(h, t) == ticking' = [ticking EXCEPT ![h] = t]

Tick(h) ==
  /\ ticking[h].step = "idle"
  /\ LET due == {[id |-> s, at |-> nextAt[s]] : s \in {x \in ScheduleIds : nextAt[x] <= clock}}
     IN /\ due # {}
        /\ TickTo(h, [NotTicking EXCEPT !.step = "insert", !.due = due])
  /\ UNCHANGED <<clock, nextAt, occurrences, enqueued, lost, upserted, upserts, tickFaults>>

Oldest(due) == {d \in due : \A e \in due : d.at <= e.at}
Occurrence(d) == <<d.id, d.at>>

\* INSERT OR IGNORE: who inserts the row emits the occurrence.
Emitted(d) == Occurrence(d) \notin occurrences

InsertOccurrence(h, d) ==
  /\ ticking[h].step = "insert" /\ d \in Oldest(ticking[h].due)
  /\ occurrences' = occurrences \cup {Occurrence(d)}
  /\ TickTo(h, [ticking[h] EXCEPT !.step = "advance", !.row = {d}, !.due = @ \ {d},
       !.found = IF Emitted(d) THEN @ \cup {Occurrence(d)} ELSE @])
  /\ UNCHANGED <<clock, nextAt, enqueued, lost, upserted, upserts, tickFaults>>

NextFromNow(d) == clock + Every[d.id]
NextDue(d) == d.at + Every[d.id]

\* The second statement: whatever next_at is by now, it is set.
Advance(h, d) ==
  /\ ticking[h].step = "advance" /\ d \in ticking[h].row
  /\ nextAt' = [nextAt EXCEPT ![d.id] = NextDue(d)]
  /\ TickTo(h, [ticking[h] EXCEPT !.row = {},
       !.step = IF ticking[h].due = {} THEN "enqueue" ELSE "insert"])
  /\ UNCHANGED <<clock, occurrences, enqueued, lost, upserted, upserts, tickFaults>>

EnqueueScheduled(h) ==
  /\ ticking[h].step = "enqueue"
  /\ \/ \E o \in ticking[h].found :
          /\ enqueued' = enqueued \cup {o}
          /\ TickTo(h, [ticking[h] EXCEPT !.found = @ \ {o}])
     \/ /\ ticking[h].found = {}
        /\ TickTo(h, NotTicking)
        /\ UNCHANGED enqueued
  /\ UNCHANGED <<clock, nextAt, occurrences, lost, upserted, upserts, tickFaults>>

TickDies(h) ==
  /\ ticking[h].step # "idle"
  /\ tickFaults < MaxTickFaults
  /\ tickFaults' = tickFaults + 1
  /\ lost' = lost \cup ticking[h].found
  /\ TickTo(h, NotTicking)
  /\ UNCHANGED <<clock, nextAt, occurrences, enqueued, upserted, upserts>>

\* gpt-relay schedule add, once more.
UpsertSchedule(s) ==
  /\ upserts < MaxUpserts
  /\ upserts' = upserts + 1
  /\ upserted' = upserted \cup {s}
  /\ nextAt' = [nextAt EXCEPT ![s] = clock + Every[s]]
  /\ UNCHANGED <<clock, occurrences, enqueued, ticking, lost, tickFaults>>

TimePasses ==
  /\ clock < MaxTime
  /\ clock' = clock + 1
  /\ UNCHANGED <<nextAt, occurrences, enqueued, ticking, lost, upserted, upserts, tickFaults>>

TickStep(h) ==
  \/ Tick(h) \/ EnqueueScheduled(h)
  \/ \E d \in ticking[h].due \cup ticking[h].row : InsertOccurrence(h, d) \/ Advance(h, d)

ScheduleNext ==
  \/ \E h \in Hosts : TickStep(h) \/ TickDies(h)
  \/ \E s \in ScheduleIds : UpsertSchedule(s)
  \/ TimePasses

ScheduleSpec == ScheduleInit /\ [][ScheduleNext]_scheduleVars

-----------------------------------------------------------------------------
(* However late, concurrent or interrupted the ticks are, next_at passes no  *)
(* due time of a schedule, until it is added again, without its occurrence.  *)
NoOccurrenceSkipped ==
  \A s \in ScheduleIds \ upserted : \A k \in 1..MaxTime :
    k * Every[s] < nextAt[s] => <<s, k * Every[s]>> \in occurrences

(* Each occurrence on record has its job, or a host that holds it, or went   *)
(* with the host that died holding it: the next tick finds the row there     *)
(* and emits nothing, so only who inserted it can enqueue it.                *)
OccurrenceHeld ==
  \A o \in occurrences : o \in enqueued \cup lost \/ \E h \in Hosts : o \in ticking[h].found

(* What ticks promise of a schedule, both of the above: no due time passes    *)
(* without its occurrence, and no occurrence without its job but by a death.  *)
OccurrencesKept == NoOccurrenceSkipped /\ OccurrenceHeld
=============================================================================
