-------------------------- MODULE PrimitivesProofs --------------------------
(***************************************************************************)
(* Theorems about the runtime primitives, for all hosts, writers, runners, *)
(* schedules, plans and bounds. Each component is proved by itself, of the *)
(* specification its module states; the last section composes them, and    *)
(* with RemoteRunnerProofs gives what holds of RuntimePrimitives.          *)
(***************************************************************************)
EXTENDS RuntimePrimitives, RemoteRunnerProofs, SequenceTheorems, FiniteSetTheorems, TLAPS

-----------------------------------------------------------------------------
(* Result files. Who links first decides, and only who has not answered yet  *)
(* can link or compare; so an answer says what the path holds for good.      *)

Writing == [step : {"new", "temp", "link", "compare", "unlink", "done"},
            answer : {"none", "written", "unchanged", "conflict"}, content : Contents]

WriterInv(w) ==
  /\ writer[w].answer # "none" => writer[w].step \in {"unlink", "done"}
  /\ writer[w].step = "compare" => target # Nothing
  /\ writer[w].answer \in {"written", "unchanged"} => target = writer[w].content
  /\ writer[w].answer = "conflict" => target \notin {Nothing, writer[w].content}

ResultInv ==
  /\ ResultTypeOK /\ writer \in [Writers -> Writing]
  /\ \A w \in Writers : WriterInv(w)
  /\ target # Nothing => \E v \in Writers : writer[v].answer = "written"
  /\ \A v, w \in Writers : writer[v].answer = "written" /\ writer[w].answer = "written" => v = w

LEMMA ResultInitial == ResultInit => ResultInv
  BY ResultAssumption DEF ResultInit, ResultInv, ResultTypeOK, Writing, WriterInv, Begun, Whole

\* A step that leaves the path and every answer but a new one alone.
LEMMA ResultStep == ResultInv /\ [ResultNext]_resultVars => ResultInv'
  <1> SUFFICES ASSUME ResultInv, [ResultNext]_resultVars PROVE ResultInv'
      OBVIOUS
  <1> USE ResultAssumption
  <1>0. /\ writer \in [Writers -> Writing]
        /\ temporaries \in [Writers -> {Nothing, Begun, Whole}]
        BY DEF ResultInv, ResultTypeOK
  <1>1. ASSUME NEW w \in Writers, LookForTarget(w) PROVE ResultInv'
        BY <1>0, <1>1 DEF LookForTarget, Goes, ResultInv, ResultTypeOK, Writing, WriterInv
  <1>2. ASSUME NEW w \in Writers, OpenTemporary(w) PROVE ResultInv'
        BY <1>0, <1>2 DEF OpenTemporary, ResultInv, ResultTypeOK, Writing, WriterInv
  <1>3. ASSUME NEW w \in Writers, WriteTemporary(w) PROVE ResultInv'
        BY <1>0, <1>3 DEF WriteTemporary, Goes, ResultInv, ResultTypeOK, Writing, WriterInv
  <1>4. ASSUME NEW w \in Writers, LinkTarget(w) PROVE ResultInv'
    <2>1. CASE Linkable
      <3>1. /\ target = Nothing /\ target' = writer[w].content /\ target' \in Contents
            /\ UNCHANGED <<temporaries, died>> /\ Answers(w, "written")
            BY <1>0, <1>4, <2>1 DEF LinkTarget, Linkable, Writing
      <3>2. \A v \in Writers : writer[v].answer = "none"
            BY <1>0, <3>1 DEF ResultInv, WriterInv, Writing
      <3> QED BY <1>0, <1>4, <3>1, <3>2
              DEF LinkTarget, Answers, ResultInv, ResultTypeOK, Writing, WriterInv
    <2>2. CASE ~Linkable
          BY <1>0, <1>4, <2>2 DEF LinkTarget, Linkable, Goes, ResultInv, ResultTypeOK, Writing, WriterInv
    <2> QED BY <2>1, <2>2
  <1>5. ASSUME NEW w \in Writers, CompareExisting(w) PROVE ResultInv'
    <2>1. /\ writer[w].step = "compare" /\ Answers(w, Existing(w))
          /\ UNCHANGED <<target, temporaries, died>>
          BY <1>5 DEF CompareExisting
    <2>2. target # Nothing /\ writer[w].answer = "none"
          BY <1>0, <2>1 DEF ResultInv, WriterInv, Writing
    <2>3. /\ Existing(w) \in {"unchanged", "conflict"}
          /\ Existing(w) = "unchanged" => target = writer[w].content
          /\ Existing(w) = "conflict" => target # writer[w].content
          BY DEF Existing
    <2> QED BY <1>0, <2>1, <2>2, <2>3 DEF Answers, ResultInv, ResultTypeOK, Writing, WriterInv
  <1>6. ASSUME NEW w \in Writers, UnlinkTemporary(w) PROVE ResultInv'
        BY <1>0, <1>6 DEF UnlinkTemporary, Goes, ResultInv, ResultTypeOK, Writing, WriterInv
  <1>7. ASSUME NEW w \in Writers, WriterDies(w) PROVE ResultInv'
        BY <1>0, <1>7 DEF WriterDies, Goes, ResultInv, ResultTypeOK, Writing, WriterInv
  <1>8. CASE UNCHANGED resultVars
        BY <1>8 DEF resultVars, ResultInv, ResultTypeOK, WriterInv
  <1> QED BY <1>1, <1>2, <1>3, <1>4, <1>5, <1>6, <1>7, <1>8 DEF ResultNext

LEMMA ResultHolds == ResultSpec => []ResultInv
  BY ResultInitial, ResultStep, PTL DEF ResultSpec

(* Whatever a writer was told about the path is so and stays so, for any     *)
(* number of writers and contents.                                           *)
THEOREM ResultAnswersTrue == ResultSpec => []AnswersTrue
  <1>1. ResultInv => AnswerHolds
        BY DEF ResultInv, WriterInv, AnswerHolds
  <1>2. ASSUME ResultInv PROVE OneWritten
    <2> DEFINE W == {w \in Writers : writer[w].answer = "written"}
    <2>1. Cardinality(W) <= 1
      <3>1. CASE W = {}
            BY <3>1, FS_EmptySet
      <3>2. CASE W # {}
        <4>1. PICK v \in W : TRUE
              BY <3>2
        <4>2. W = {v}
              BY <1>2, <4>1 DEF ResultInv
        <4> QED BY <4>2, FS_Singleton
      <3> QED BY <3>1, <3>2
    <2>2. ASSUME NEW w \in Writers, writer[w].answer = "conflict"
          PROVE  \E v \in Writers : v # w /\ target = writer[v].content
      <3>1. target # Nothing /\ target # writer[w].content
            BY <1>2, <2>2 DEF ResultInv, WriterInv
      <3>2. PICK v \in Writers : writer[v].answer = "written"
            BY <1>2, <3>1 DEF ResultInv
      <3>3. target = writer[v].content
            BY <1>2, <3>2 DEF ResultInv, WriterInv
      <3> QED BY <3>1, <3>3
    <2> QED BY <2>1, <2>2 DEF OneWritten
  <1>3. ResultInv => AnswersTrue
        BY <1>1, <1>2 DEF AnswersTrue
  <1> QED BY <1>3, ResultHolds, PTL

-----------------------------------------------------------------------------
(* Schedules. Of a schedule that was added once, every next_at, in the table *)
(* or read into a tick, is a due time with all due times before it on record. *)

Ticks ==
  [step : {"idle", "insert", "advance", "enqueue"}, due : SUBSET Due, row : SUBSET Due,
   found : SUBSET (ScheduleIds \X Nat)]

DueTime(s, t) == \E m \in Nat \ {0} : t = m * Every[s]
Recorded(s, t) == \A k \in Nat \ {0} : k * Every[s] < t => <<s, k * Every[s]>> \in occurrences
InTime(s, t) == DueTime(s, t) /\ Recorded(s, t)

ScheduleInv ==
  /\ ScheduleTypeOK /\ ticking \in [Hosts -> Ticks]
  /\ \A h \in Hosts : ticking[h].step = "idle" => ticking[h] = NotTicking
  /\ \A s \in ScheduleIds \ upserted : InTime(s, nextAt[s])
  /\ \A h \in Hosts : \A d \in ticking[h].due \cup ticking[h].row :
       d.id \notin upserted => InTime(d.id, d.at)
  /\ \A h \in Hosts : \A d \in ticking[h].row : Occurrence(d) \in occurrences
  /\ OccurrenceHeld

LEMMA Multiples ==
  ASSUME NEW e \in Nat \ {0}, NEW k \in Nat, NEW m \in Nat
  PROVE  /\ k * e \in Nat
         /\ k * e < m * e + e => k * e < m * e \/ k = m
         /\ (m + 1) * e = m * e + e
  <1>1. k * e \in Nat /\ m * e \in Nat /\ (m + 1) * e = m * e + e
        OBVIOUS
  <1>2. ASSUME k > m PROVE k * e >= (m + 1) * e
    <2>1. PICK x \in Nat : k = (m + 1) + x
      <3>1. k - (m + 1) \in Nat /\ k = (m + 1) + (k - (m + 1))
            BY <1>2
      <3> QED BY <3>1
    <2>2. k * e = (m + 1) * e + x * e /\ x * e \in Nat
          BY <2>1
    <2> QED BY <1>1, <2>2
  <1>3. ASSUME k < m PROVE k * e < m * e
    <2>1. PICK x \in Nat : m = (k + 1) + x
      <3>1. m - (k + 1) \in Nat /\ m = (k + 1) + (m - (k + 1))
            BY <1>3
      <3> QED BY <3>1
    <2>2. m * e = k * e + e + x * e /\ x * e \in Nat
          BY <2>1
    <2> QED BY <1>1, <2>2
  <1> QED BY <1>1, <1>2, <1>3

\* Behind a due time whose occurrence is on record comes the next one.
LEMMA NextIsDue ==
  ASSUME NEW d \in Due, InTime(d.id, d.at), Occurrence(d) \in occurrences
  PROVE  InTime(d.id, NextDue(d)) /\ NextDue(d) \in Nat
  <1>0. d.id \in ScheduleIds /\ d.at \in Nat /\ Every[d.id] \in Nat \ {0}
        BY ScheduleAssumption DEF Due
  <1>1. PICK m \in Nat \ {0} : d.at = m * Every[d.id]
        BY DEF InTime, DueTime
  <1>2. NextDue(d) = (m + 1) * Every[d.id] /\ m + 1 \in Nat \ {0}
    <2>1. PICK e \in Nat \ {0} : e = Every[d.id]
          BY <1>0
    <2>2. (m + 1) * e = m * e + e
          BY Multiples
    <2> QED BY <1>1, <2>1, <2>2 DEF NextDue
  <1>3. ASSUME NEW k \in Nat \ {0}, k * Every[d.id] < NextDue(d)
        PROVE  <<d.id, k * Every[d.id]>> \in occurrences
    <2>1. k * Every[d.id] < d.at \/ k = m
          BY <1>0, <1>1, <1>3, Multiples DEF NextDue
    <2> QED BY <1>1, <2>1 DEF InTime, Recorded, Occurrence
  <1> QED BY <1>0, <1>2, <1>3 DEF InTime, DueTime, Recorded, NextDue

LEMMA ScheduleInitial == ScheduleInit => ScheduleInv
  <1> SUFFICES ASSUME ScheduleInit PROVE ScheduleInv
      OBVIOUS
  <1>1. NotTicking \in Ticks
        BY DEF NotTicking, Ticks
  <1>2. \A s \in ScheduleIds : InTime(s, nextAt[s])
    <2> SUFFICES ASSUME NEW s \in ScheduleIds PROVE InTime(s, Every[s])
        BY DEF ScheduleInit
    <2>1. Every[s] \in Nat \ {0} /\ Every[s] = 1 * Every[s]
          BY ScheduleAssumption
    <2>2. \A k \in Nat \ {0} : ~(k * Every[s] < Every[s])
      <3> SUFFICES ASSUME NEW k \in Nat \ {0}, k * Every[s] < Every[s] PROVE FALSE
          OBVIOUS
      <3>1. k * Every[s] < 0 * Every[s] \/ k = 0
            BY <2>1, Multiples
      <3> QED BY <2>1, <3>1, Multiples
    <2> QED BY <2>1, <2>2 DEF InTime, DueTime, Recorded
  <1>3. ScheduleTypeOK
        BY ScheduleAssumption DEF ScheduleInit, ScheduleTypeOK, NotTicking
  <1>4. OccurrenceHeld
        BY DEF ScheduleInit, OccurrenceHeld
  <1> QED BY <1>1, <1>2, <1>3, <1>4 DEF ScheduleInit, ScheduleInv, NotTicking

(* A step of one host that keeps the table of schedules.                     *)
LEMMA TickGoes ==
  ASSUME ScheduleInv, NEW h \in Hosts, NEW t \in Ticks, TickTo(h, t),
         UNCHANGED <<clock, nextAt, upserted>>, occurrences \subseteq occurrences',
         occurrences' \subseteq ScheduleIds \X Nat,
         enqueued' \subseteq occurrences', lost' \subseteq occurrences',
         (t.row # {}) <=> (t.step = "advance"), t.found \subseteq occurrences',
         t.step = "idle" => t = NotTicking,
         \A d \in t.due \cup t.row : d.id \notin upserted => InTime(d.id, d.at),
         \A d \in t.row : Occurrence(d) \in occurrences',
         enqueued \subseteq enqueued', lost \subseteq lost',
         \A o \in occurrences' \ occurrences : o \in t.found,
         \A o \in ticking[h].found : o \in t.found \cup enqueued' \cup lost'
  PROVE  ScheduleInv'
  <1>1. /\ ticking' \in [Hosts -> Ticks] /\ ticking'[h] = t
        /\ \A x \in Hosts \ {h} : ticking'[x] = ticking[x]
        BY DEF TickTo, ScheduleInv
  <1>2. ScheduleTypeOK'
        BY <1>1 DEF ScheduleInv, ScheduleTypeOK, Ticks
  <1>3. \A s \in ScheduleIds \ upserted' : InTime(s, nextAt[s])'
        BY DEF ScheduleInv, InTime, DueTime, Recorded
  <1>4. \A x \in Hosts : \A d \in ticking'[x].due \cup ticking'[x].row :
          d.id \notin upserted' => DueTime(d.id, d.at) /\ Recorded(d.id, d.at)'
        BY <1>1 DEF ScheduleInv, InTime, DueTime, Recorded
  <1>5. \A x \in Hosts : \A d \in ticking'[x].row : Occurrence(d) \in occurrences'
        BY <1>1 DEF ScheduleInv
  <1>6. OccurrenceHeld'
        BY <1>1 DEF ScheduleInv, OccurrenceHeld
  <1> QED BY <1>1, <1>2, <1>3, <1>4, <1>5, <1>6 DEF ScheduleInv, InTime, DueTime, Occurrence

LEMMA ScheduleStep == ScheduleInv /\ [ScheduleNext]_scheduleVars => ScheduleInv'
  <1> SUFFICES ASSUME ScheduleInv, [ScheduleNext]_scheduleVars PROVE ScheduleInv'
      OBVIOUS
  <1>0. /\ ticking \in [Hosts -> Ticks] /\ NotTicking \in Ticks
        /\ occurrences \subseteq ScheduleIds \X Nat
        /\ enqueued \subseteq occurrences /\ lost \subseteq occurrences
        /\ nextAt \in [ScheduleIds -> Nat]
        /\ \A h \in Hosts : (ticking[h].row # {}) <=> (ticking[h].step = "advance")
        /\ \A h \in Hosts : ticking[h].found \subseteq occurrences
        BY DEF ScheduleInv, ScheduleTypeOK, NotTicking, Ticks
  <1>1. ASSUME NEW h \in Hosts, Tick(h) PROVE ScheduleInv'
    <2> DEFINE due == {[id |-> s, at |-> nextAt[s]] : s \in {x \in ScheduleIds : nextAt[x] <= clock}}
               t == [NotTicking EXCEPT !.step = "insert", !.due = due]
    <2>1. /\ TickTo(h, t) /\ ticking[h] = NotTicking
          /\ UNCHANGED <<clock, nextAt, upserted, occurrences, enqueued, lost>>
          BY <1>1 DEF Tick, ScheduleInv
    <2>2. due \subseteq Due
          BY <1>0 DEF Due
    <2>3. \A d \in due : d.id \notin upserted => InTime(d.id, d.at)
          BY DEF ScheduleInv
    <2> HIDE DEF due
    <2>4. NotTicking.row = {} /\ NotTicking.found = {}
          BY DEF NotTicking
    <2>5. /\ t \in Ticks /\ t.due = due /\ t.row = {} /\ t.found = {} /\ t.step = "insert"
          /\ ticking[h].found = {}
          BY <1>0, <2>1, <2>2, <2>4 DEF Ticks
    <2> HIDE DEF t
    <2> QED BY <1>0, <2>1, <2>3, <2>4, <2>5, TickGoes
  <1>2. ASSUME NEW h \in Hosts, NEW d \in ticking[h].due \cup ticking[h].row, InsertOccurrence(h, d)
        PROVE  ScheduleInv'
    <2> DEFINE f == IF Emitted(d) THEN ticking[h].found \cup {Occurrence(d)} ELSE ticking[h].found
               t == [ticking[h] EXCEPT !.step = "advance", !.row = {d}, !.due = @ \ {d}, !.found = f]
    <2>1. /\ TickTo(h, t) /\ ticking[h].step = "insert" /\ d \in ticking[h].due
          /\ occurrences' = occurrences \cup {Occurrence(d)}
          /\ UNCHANGED <<clock, nextAt, upserted, enqueued, lost>>
          BY <1>2 DEF InsertOccurrence, Oldest
    <2>2. d \in Due /\ Occurrence(d) \in ScheduleIds \X Nat
          BY <1>0, <2>1 DEF Ticks, Due, Occurrence
    <2>3. /\ f \in SUBSET (ScheduleIds \X Nat) /\ f \subseteq occurrences'
          /\ ticking[h].found \subseteq f /\ \A o \in occurrences' \ occurrences : o \in f
          BY <1>0, <2>1, <2>2 DEF Emitted
    <2>4. /\ t \in Ticks /\ t.step = "advance" /\ t.row = {d} /\ t.found = f
          /\ t.due = ticking[h].due \ {d}
          BY <1>0, <2>2, <2>3 DEF Ticks
    <2>5. \A x \in t.due \cup t.row : x.id \notin upserted => InTime(x.id, x.at)
          BY <2>1, <2>4 DEF ScheduleInv
    <2> HIDE DEF t, f
    <2>6. occurrences' \subseteq ScheduleIds \X Nat /\ Occurrence(d) \in occurrences'
          BY <1>0, <2>1, <2>2
    <2> QED BY <1>0, <2>1, <2>3, <2>4, <2>5, <2>6, TickGoes
  <1>3. ASSUME NEW h \in Hosts, NEW d \in ticking[h].due \cup ticking[h].row, Advance(h, d)
        PROVE  ScheduleInv'
    <2> DEFINE step == IF ticking[h].due = {} THEN "enqueue" ELSE "insert"
               t == [ticking[h] EXCEPT !.row = {}, !.step = step]
    <2>1. /\ TickTo(h, t) /\ d \in ticking[h].row /\ nextAt' = [nextAt EXCEPT ![d.id] = NextDue(d)]
          /\ UNCHANGED <<clock, upserted, occurrences, enqueued, lost>>
          BY <1>3 DEF Advance
    <2>2. d \in Due /\ Occurrence(d) \in occurrences /\ NextDue(d) \in Nat
      <3>1. d \in Due /\ Occurrence(d) \in occurrences
            BY <1>0, <2>1 DEF Ticks, ScheduleInv
      <3> QED BY <3>1, ScheduleAssumption DEF NextDue, Due
    <2>3. /\ t \in Ticks /\ t.row = {} /\ t.step \in {"enqueue", "insert"}
          /\ t.due = ticking[h].due /\ t.found = ticking[h].found
          BY <1>0 DEF Ticks
    <2>4. /\ ticking' \in [Hosts -> Ticks] /\ ticking'[h] = t
          /\ \A x \in Hosts \ {h} : ticking'[x] = ticking[x]
          BY <1>0, <2>1, <2>3 DEF TickTo
    <2> HIDE DEF t
    <2>5. nextAt' \in [ScheduleIds -> Nat] /\ d.id \in ScheduleIds
          BY <1>0, <2>1, <2>2 DEF Due
    <2>6. ScheduleTypeOK'
          BY <1>0, <2>1, <2>3, <2>4, <2>5 DEF ScheduleInv, ScheduleTypeOK, Ticks
    <2>7. \A s \in ScheduleIds \ upserted : InTime(s, nextAt'[s])
      <3>1. d.id \notin upserted => InTime(d.id, NextDue(d))
            BY <2>1, <2>2, NextIsDue DEF ScheduleInv
      <3> QED BY <1>0, <2>1, <2>5, <3>1 DEF ScheduleInv
    <2>8. \A x \in Hosts : ticking'[x].due \cup ticking'[x].row \subseteq ticking[x].due \cup ticking[x].row
          BY <2>3, <2>4
    <2>9. OccurrenceHeld'
          BY <2>1, <2>3, <2>4 DEF ScheduleInv, OccurrenceHeld
    <2> QED BY <2>1, <2>3, <2>4, <2>6, <2>7, <2>8, <2>9
            DEF ScheduleInv, InTime, DueTime, Recorded, Occurrence
  <1>4. ASSUME NEW h \in Hosts, EnqueueScheduled(h) PROVE ScheduleInv'
    <2>0. /\ ticking[h].step = "enqueue" /\ ticking[h].row = {}
          /\ UNCHANGED <<clock, nextAt, upserted, occurrences, lost>>
          /\ \A d \in ticking[h].due : d.id \notin upserted => InTime(d.id, d.at)
          BY <1>0, <1>4 DEF EnqueueScheduled, ScheduleInv
    <2>1. ASSUME NEW o \in ticking[h].found, enqueued' = enqueued \cup {o},
                 TickTo(h, [ticking[h] EXCEPT !.found = @ \ {o}])
          PROVE  ScheduleInv'
      <3> DEFINE t == [ticking[h] EXCEPT !.found = @ \ {o}]
      <3>1. /\ t \in Ticks /\ t.step = "enqueue" /\ t.row = {} /\ t.due = ticking[h].due
            /\ t.found = ticking[h].found \ {o}
            BY <1>0, <2>0 DEF Ticks
      <3> HIDE DEF t
      <3>2. TickTo(h, t)
            BY <2>1 DEF t
      <3> QED BY <1>0, <2>0, <2>1, <3>1, <3>2, TickGoes
    <2>2. ASSUME ticking[h].found = {}, TickTo(h, NotTicking), UNCHANGED enqueued PROVE ScheduleInv'
      <3>1. NotTicking.row = {} /\ NotTicking.due = {} /\ NotTicking.found = {} /\ NotTicking.step = "idle"
            BY DEF NotTicking
      <3> QED BY <1>0, <2>0, <2>2, <3>1, TickGoes
    <2> QED BY <1>4, <2>1, <2>2 DEF EnqueueScheduled
  <1>5. ASSUME NEW h \in Hosts, TickDies(h) PROVE ScheduleInv'
    <2>1. /\ UNCHANGED <<clock, nextAt, upserted, occurrences, enqueued>>
          /\ TickTo(h, NotTicking) /\ lost' = lost \cup ticking[h].found
          BY <1>5 DEF TickDies
    <2>2. NotTicking.row = {} /\ NotTicking.due = {} /\ NotTicking.found = {} /\ NotTicking.step = "idle"
          BY DEF NotTicking
    <2> QED BY <1>0, <2>1, <2>2, TickGoes
  <1>6. ASSUME NEW s \in ScheduleIds, UpsertSchedule(s) PROVE ScheduleInv'
    <2>1. /\ upserted' = upserted \cup {s} /\ nextAt' = [nextAt EXCEPT ![s] = clock + Every[s]]
          /\ UNCHANGED <<clock, occurrences, enqueued, ticking, lost>>
          BY <1>6 DEF UpsertSchedule
    <2>2. clock + Every[s] \in Nat
          BY ScheduleAssumption DEF ScheduleInv, ScheduleTypeOK
    <2>3. ScheduleTypeOK'
          BY <1>0, <2>1, <2>2 DEF ScheduleInv, ScheduleTypeOK
    <2> QED BY <1>0, <2>1, <2>3
            DEF ScheduleInv, OccurrenceHeld, InTime, DueTime, Recorded, Occurrence
  <1>7. CASE TimePasses
    <2>1. UNCHANGED <<nextAt, upserted, occurrences, enqueued, ticking, lost>> /\ clock' \in 0..MaxTime
          BY <1>7, ScheduleAssumption DEF TimePasses, ScheduleInv, ScheduleTypeOK
    <2> QED BY <2>1 DEF ScheduleInv, ScheduleTypeOK, OccurrenceHeld, InTime, DueTime, Recorded
  <1>8. CASE UNCHANGED scheduleVars
        BY <1>8 DEF scheduleVars, ScheduleInv, ScheduleTypeOK, OccurrenceHeld, InTime, DueTime, Recorded
  <1> QED BY <1>1, <1>2, <1>3, <1>4, <1>5, <1>6, <1>7, <1>8 DEF ScheduleNext, TickStep

LEMMA ScheduleHolds == ScheduleSpec => []ScheduleInv
  BY ScheduleInitial, ScheduleStep, PTL DEF ScheduleSpec

(* No due time of a schedule passes without its occurrence, and each has its *)
(* job or the host that found it, for any hosts, periods and deaths.         *)
THEOREM ScheduleOccurrencesKept == ScheduleSpec => []OccurrencesKept
  <1>1. ScheduleInv => NoOccurrenceSkipped
    <2> SUFFICES ASSUME ScheduleInv, NEW s \in ScheduleIds \ upserted, NEW k \in 1..MaxTime,
                        k * Every[s] < nextAt[s]
                 PROVE  <<s, k * Every[s]>> \in occurrences
        BY DEF NoOccurrenceSkipped
    <2>1. k \in Nat \ {0}
          BY ScheduleAssumption
    <2> QED BY <2>1 DEF ScheduleInv, InTime, Recorded
  <1>2. ScheduleInv => OccurrencesKept
        BY <1>1 DEF OccurrencesKept, ScheduleInv
  <1> QED BY <1>2, ScheduleHolds, PTL

-----------------------------------------------------------------------------
(* The event stream. What the client has and what is under way to it rise,   *)
(* and leave out only bursts; the server's cursor is the last of them.       *)

Rising(s) == \A i, j \in 1..Len(s) : i < j => s[i] < s[j]
Newest == IF wire = <<>> THEN LastEventId ELSE Last(wire)

WatchInv ==
  /\ WatchTypeOK
  /\ Rising(received) /\ Rising(wire)
  /\ \A i \in 1..Len(received) : \A j \in 1..Len(wire) : received[i] < wire[j]
  /\ connected => cursor = Newest
  /\ \A e \in 1..Newest : Contains(received, e) \/ Contains(wire, e) \/ e \in burst

\* What a poll writes runs on without a gap from the cursor, or from where
\* the window starts, to the newest event.
From == IF cursor < WindowStart THEN WindowStart ELSE cursor + 1

\* What SubSeq leaves of a sequence behind its place p.
LEMMA RestIs ==
  ASSUME NEW S, NEW s \in Seq(S), NEW n \in Nat, Len(s) = n, NEW p \in 1..n
  PROVE  /\ SubSeq(s, p + 1, n) \in Seq(S) /\ Len(SubSeq(s, p + 1, n)) = n - p
         /\ \A i \in 1..(n - p) : SubSeq(s, p + 1, n)[i] = s[p + i]
  <1>1. \A i \in (p + 1)..n : s[i] \in S
        OBVIOUS
  <1>2. /\ SubSeq(s, p + 1, n) \in Seq(S)
        /\ Len(SubSeq(s, p + 1, n)) = IF p + 1 <= n THEN n - (p + 1) + 1 ELSE 0
        /\ \A i \in 1..(n - (p + 1) + 1) : SubSeq(s, p + 1, n)[i] = s[p + 1 + i - 1]
        BY <1>1, SubSeqProperties
  <1>3. Len(SubSeq(s, p + 1, n)) = n - p /\ n - (p + 1) + 1 = n - p
        BY <1>2
  <1>4. ASSUME NEW i \in 1..(n - p) PROVE SubSeq(s, p + 1, n)[i] = s[p + i]
    <2>1. p + 1 + i - 1 = p + i
          OBVIOUS
    <2> QED BY <1>2, <1>3, <2>1
  <1> QED BY <1>2, <1>3, <1>4

LEMMA PollWrites ==
  ASSUME logged \in Nat, cursor \in 0..logged
  PROVE  /\ From \in Nat /\ From > cursor /\ From <= logged + 1
         /\ AfterCursor(Window) \in Seq(1..logged)
         /\ Len(AfterCursor(Window)) = logged + 1 - From
         /\ \A i \in 1..(logged + 1 - From) : AfterCursor(Window)[i] = From + i - 1
  <1>1. WindowStart \in 1..(logged + 1)
        BY WatchAssumption DEF WindowStart
  <1> DEFINE w == Window
             n == logged + 1 - WindowStart
             p == cursor + 1 - WindowStart
  <1>2. /\ n \in Nat /\ w \in Seq(1..logged) /\ Len(w) = n
        /\ \A i \in 1..n : w[i] = WindowStart + i - 1
        BY <1>1 DEF Window
  <1> HIDE DEF w
  <1>3. CASE cursor < WindowStart
    <2>1. ~Contains(w, cursor)
          BY <1>1, <1>2, <1>3 DEF Contains
    <2>2. AfterCursor(w) = w
          BY <2>1 DEF AfterCursor
    <2>3. From = WindowStart
          BY <1>3 DEF From
    <2> QED BY <1>1, <1>2, <1>3, <2>2, <2>3 DEF w
  <1>4. CASE ~(cursor < WindowStart)
    <2>1. p \in 1..n /\ w[p] = cursor
          BY <1>1, <1>2, <1>4
    <2>2. {i \in 1..Len(w) : w[i] = cursor} = {p}
      <3>1. p \in 1..Len(w) /\ WindowStart \in Nat /\ p = cursor + 1 - WindowStart
            BY <1>1, <1>2, <2>1
      <3>2. ASSUME NEW i \in 1..Len(w), w[i] = cursor PROVE i = p
        <4>1. WindowStart + i - 1 = cursor
              BY <1>2, <3>2
        <4> QED BY <3>1, <4>1
      <3> QED BY <2>1, <3>1, <3>2
    <2>3. Min({p}) = p
          BY <2>1 DEF Min
    <2>4. SelectInSeq(w, LAMBDA e : e = cursor) = p
          BY <2>2, <2>3 DEF SelectInSeq
    <2>5. Contains(w, cursor)
          BY <1>2, <2>1 DEF Contains
    <2>6. AfterCursor(w) = SubSeq(w, p + 1, n)
          BY <1>2, <2>4, <2>5 DEF AfterCursor
    <2>8. /\ SubSeq(w, p + 1, n) \in Seq(1..logged)
          /\ Len(SubSeq(w, p + 1, n)) = n - p
          /\ \A i \in 1..(n - p) : SubSeq(w, p + 1, n)[i] = w[p + i]
      <3> HIDE DEF p, n
      <3> QED BY <1>2, <2>1, RestIs
    <2>9. From = cursor + 1
          BY <1>4 DEF From
    <2> QED BY <1>1, <1>2, <1>4, <2>1, <2>6, <2>8, <2>9 DEF w
  <1> QED BY <1>3, <1>4

LEMMA WatchInitial == WatchInit => WatchInv
  BY WatchAssumption DEF WatchInit, WatchInv, WatchTypeOK, Rising, Newest, LastEventId

LEMMA WatchStep == WatchInv /\ [WatchNext]_watchVars => WatchInv'
  <1> SUFFICES ASSUME WatchInv, [WatchNext]_watchVars PROVE WatchInv'
      OBVIOUS
  <1>0. /\ logged \in 0..MaxLogged /\ logged \in Nat /\ cursor \in 0..logged
        /\ wire \in Seq(1..logged) /\ received \in Seq(1..logged)
        /\ burst \subseteq 1..logged
        BY WatchAssumption DEF WatchInv, WatchTypeOK
  <1>w. /\ Len(wire) \in Nat /\ \A i \in 1..Len(wire) : wire[i] \in 1..logged
        /\ Len(received) \in Nat /\ \A i \in 1..Len(received) : received[i] \in 1..logged
        /\ wire # <<>> => Len(wire) \in 1..Len(wire)
        /\ received # <<>> => Len(received) \in 1..Len(received)
        BY <1>0
  <1>r. /\ \A i, j \in 1..Len(wire) : i < j => wire[i] < wire[j]
        /\ \A i, j \in 1..Len(received) : i < j => received[i] < received[j]
        /\ \A i \in 1..Len(received) : \A j \in 1..Len(wire) : received[i] < wire[j]
        BY DEF WatchInv, Rising
  <1>1. CASE LogEvent
    <2>1. /\ logged' = logged + 1 /\ logged' \in 0..MaxLogged
          /\ UNCHANGED <<connected, cursor, wire, received, burst>>
          BY <1>0, <1>w, <1>r, <1>1, WatchAssumption DEF LogEvent
    <2>2. 1..logged \subseteq 1..logged'
          BY <1>0, <1>w, <1>r, <2>1
    <2>3. wire' \in Seq(1..logged') /\ received' \in Seq(1..logged')
          BY <1>0, <1>w, <1>r, <2>1, <2>2
    <2> QED BY <1>0, <1>w, <1>r, <2>1, <2>2, <2>3
            DEF WatchInv, WatchTypeOK, Rising, Newest, LastEventId, Last, Contains
  <1>2. CASE Poll
    <2> DEFINE events == AfterCursor(Window)
               n == logged + 1 - From
    <2>1. /\ events \in Seq(1..logged) /\ Len(events) = n
          /\ From \in Nat /\ From > cursor
          /\ \A i \in 1..n : events[i] = From + i - 1
          BY <1>0, <1>w, <1>r, PollWrites
    <2>2. /\ connected /\ events # <<>> /\ wire' = wire \o events /\ cursor' = Last(events)
          /\ burst' = burst \cup {e \in 1..logged : cursor < e /\ e < WindowStart}
          /\ UNCHANGED <<logged, connected, received>>
          BY <1>2 DEF Poll
    <2> HIDE DEF events
    <2>3. /\ n \in Nat \ {0} /\ Head(events) = From /\ Last(events) = logged
          BY <1>0, <1>w, <1>r, <2>1, <2>2 DEF Last
    <2>c. /\ wire' \in Seq(1..logged) /\ Len(wire') = Len(wire) + Len(events)
          /\ \A i \in 1..(Len(wire) + Len(events)) :
               wire'[i] = IF i <= Len(wire) THEN wire[i] ELSE events[i - Len(wire)]
          BY <1>0, <2>1, <2>2, ConcatProperties
    <2> HIDE DEF n
    <2>4. /\ wire' \in Seq(1..logged) /\ Len(wire') = Len(wire) + n
          /\ \A i \in 1..Len(wire) : wire'[i] = wire[i]
          /\ \A i \in 1..n : wire'[Len(wire) + i] = From + i - 1
      <3>1. ASSUME NEW i \in 1..n
            PROVE  /\ Len(wire) + i \in 1..(Len(wire) + Len(events)) /\ ~(Len(wire) + i <= Len(wire))
                   /\ (Len(wire) + i) - Len(wire) = i
            BY <1>w, <2>1, <2>3
      <3>2. \A i \in 1..n : wire'[Len(wire) + i] = From + i - 1
            BY <2>1, <2>c, <3>1
      <3>3. \A i \in 1..Len(wire) : wire'[i] = wire[i]
            BY <1>w, <2>1, <2>3, <2>c
      <3> QED BY <2>1, <2>c, <3>2, <3>3
    <2>5. /\ \A i \in 1..Len(wire) : wire[i] <= cursor
          /\ \A i \in 1..Len(received) : received[i] <= cursor
      <3>1. cursor = Newest
            BY <2>2 DEF WatchInv
      <3>2. CASE wire = <<>>
        <4>1. cursor = LastEventId /\ Len(wire) = 0
              BY <3>1, <3>2 DEF Newest
        <4>2. CASE received = <<>>
              BY <4>1, <4>2
        <4>3. CASE received # <<>>
          <5>1. cursor = received[Len(received)]
                BY <4>1, <4>3 DEF LastEventId, Last
          <5>2. \A i \in 1..Len(received) : i < Len(received) \/ i = Len(received)
                BY <1>w
          <5> QED BY <1>0, <1>w, <1>r, <4>1, <4>3, <5>1, <5>2
        <4> QED BY <4>2, <4>3
      <3>3. CASE wire # <<>>
        <4>1. cursor = wire[Len(wire)]
              BY <3>1, <3>3 DEF Newest, Last
        <4>2. \A i \in 1..Len(wire) : i < Len(wire) \/ i = Len(wire)
              BY <1>w
        <4> QED BY <1>0, <1>w, <1>r, <3>3, <4>1, <4>2
      <3> QED BY <3>2, <3>3
    <2>6. Newest' = logged
      <3>1. wire' # <<>> /\ Len(wire') = Len(wire) + n /\ n \in 1..n
            BY <1>w, <2>3, <2>4
      <3>2. wire'[Len(wire) + n] = From + n - 1
            BY <2>4, <3>1
      <3>3. From + n - 1 = logged
            BY <1>0, <2>1 DEF n
      <3> QED BY <3>1, <3>2, <3>3 DEF Newest, Last
    <2>7. WatchTypeOK'
      <3>1. cursor' = logged /\ burst' \subseteq 1..logged
            BY <1>0, <2>2, <2>3
      <3> QED BY <1>0, <2>2, <2>4, <3>1 DEF WatchTypeOK
    <2>8. Rising(wire') /\ \A i \in 1..Len(received) : \A j \in 1..Len(wire') : received[i] < wire'[j]
      <3>1. ASSUME NEW j \in 1..Len(wire')
            PROVE  j \in 1..Len(wire) \/ \E i \in 1..n : j = Len(wire) + i
        <4>1. CASE j > Len(wire)
          <5>1. j - Len(wire) \in 1..n
                BY <1>w, <2>3, <2>4, <4>1
          <5> QED BY <1>w, <2>4, <5>1
        <4>2. CASE ~(j > Len(wire))
          <5>1. j \in Nat /\ j >= 1
                BY <1>w, <2>3, <2>4
          <5> QED BY <1>w, <4>2, <5>1
        <4> QED BY <4>1, <4>2
      <3>2. ASSUME NEW i \in 1..n
            PROVE  /\ wire'[Len(wire) + i] = From + i - 1 /\ wire'[Len(wire) + i] > cursor
        <4>1. wire'[Len(wire) + i] = From + i - 1
              BY <2>4
        <4>2. From + i - 1 > cursor
              BY <1>0, <2>1, <2>3
        <4> QED BY <4>1, <4>2
      <3>3. \A j \in 1..Len(wire) : wire'[j] = wire[j] /\ wire[j] <= cursor /\ wire[j] \in Nat
            BY <1>0, <1>w, <2>4, <2>5
      <3>4. ASSUME NEW i \in 1..Len(wire'), NEW j \in 1..Len(wire'), i < j
            PROVE  wire'[i] < wire'[j]
        <4>1. CASE i \in 1..Len(wire) /\ j \in 1..Len(wire)
              BY <1>r, <3>3, <3>4, <4>1
        <4>2. ASSUME i \in 1..Len(wire), NEW y \in 1..n, j = Len(wire) + y PROVE wire'[i] < wire'[j]
          <5>1. wire'[j] > cursor /\ wire'[j] = From + y - 1
                BY <3>2, <4>2
          <5>2. wire'[i] <= cursor /\ wire'[i] \in Nat
                BY <3>3, <4>2
          <5> QED BY <1>0, <2>1, <2>3, <5>1, <5>2
        <4>3. ASSUME NEW x \in 1..n, i = Len(wire) + x, NEW y \in 1..n, j = Len(wire) + y
              PROVE  wire'[i] < wire'[j]
          <5>1. wire'[i] = From + x - 1 /\ wire'[j] = From + y - 1
                BY <3>2, <4>3
          <5>2. x < y
                BY <1>w, <2>3, <3>4, <4>3
          <5> QED BY <2>1, <2>3, <5>1, <5>2
        <4>4. ASSUME NEW x \in 1..n, i = Len(wire) + x, j \in 1..Len(wire) PROVE FALSE
              BY <1>w, <2>3, <3>4, <4>4
        <4> QED BY <3>1, <4>1, <4>2, <4>3, <4>4
      <3>5. ASSUME NEW i \in 1..Len(received), NEW j \in 1..Len(wire') PROVE received[i] < wire'[j]
        <4>1. CASE j \in 1..Len(wire)
              BY <1>r, <3>3, <4>1
        <4>2. ASSUME NEW y \in 1..n, j = Len(wire) + y PROVE received[i] < wire'[j]
          <5>1. received[i] \in Nat /\ received[i] <= cursor
                BY <1>0, <1>w, <2>5
          <5>2. wire'[j] > cursor /\ wire'[j] = From + y - 1
                BY <3>2, <4>2
          <5> QED BY <1>0, <2>1, <2>3, <5>1, <5>2
        <4> QED BY <3>1, <4>1, <4>2
      <3> QED BY <3>4, <3>5 DEF Rising
    <2>9. ASSUME NEW e \in 1..logged
          PROVE  Contains(received, e) \/ Contains(wire', e) \/ e \in burst'
      <3>1. CASE e <= cursor
        <4>1. Contains(received, e) \/ Contains(wire, e) \/ e \in burst
              BY <1>0, <1>w, <1>r, <2>2, <3>1 DEF WatchInv
        <4>2. Contains(wire, e) => Contains(wire', e)
              BY <1>0, <1>w, <1>r, <2>3, <2>4 DEF Contains
        <4> QED BY <2>2, <4>1, <4>2
      <3>2. CASE cursor < e /\ e < From
        <4>1. WindowStart \in Nat
              BY <1>0, WatchAssumption DEF WindowStart
        <4>2. e < WindowStart
              BY <1>0, <3>2, <4>1 DEF From
        <4> QED BY <2>2, <3>2, <4>2
      <3>3. CASE e >= From
        <4>1. e + 1 - From \in 1..n /\ From + (e + 1 - From) - 1 = e
              BY <1>0, <2>1, <2>3, <3>3 DEF n
        <4>2. wire'[Len(wire) + (e + 1 - From)] = e /\ Len(wire) + (e + 1 - From) \in 1..Len(wire')
              BY <1>w, <2>3, <2>4, <4>1
        <4> QED BY <4>2 DEF Contains
      <3> QED BY <1>0, <1>w, <1>r, <2>1, <3>1, <3>2, <3>3
    <2> QED BY <2>2, <2>3, <2>6, <2>7, <2>8, <2>9 DEF WatchInv
  <1>3. CASE Receive
    <2>1. /\ wire # <<>> /\ received' = Append(received, Head(wire)) /\ wire' = Tail(wire)
          /\ UNCHANGED <<logged, connected, cursor, burst>>
          BY <1>3 DEF Receive
    <2>2. /\ Len(wire) >= 1 /\ Head(wire) = wire[1] /\ Len(wire') = Len(wire) - 1
          /\ wire' \in Seq(1..logged)
          /\ \A i \in 1..Len(wire') : wire'[i] = wire[i + 1]
          BY <1>0, <1>w, <1>r, <2>1
    <2>3. /\ received' \in Seq(1..logged) /\ Len(received') = Len(received) + 1
          /\ \A i \in 1..Len(received) : received'[i] = received[i]
          /\ received'[Len(received')] = wire[1]
          BY <1>0, <1>w, <1>r, <2>1, <2>2
    <2>4. Newest' = Newest
      <3>1. Newest = wire[Len(wire)]
            BY <2>1 DEF Newest, Last
      <3>2. CASE wire' = <<>>
        <4>1. Len(wire) = 1 /\ received' # <<>>
              BY <1>w, <2>2, <2>3, <3>2
        <4> QED BY <2>3, <3>1, <3>2, <4>1 DEF Newest, LastEventId, Last
      <3>3. CASE wire' # <<>>
        <4>1. Len(wire') \in 1..Len(wire') /\ Len(wire') + 1 = Len(wire)
              BY <1>w, <2>2, <3>3
        <4> QED BY <2>2, <3>1, <3>3, <4>1 DEF Newest, Last
      <3> QED BY <3>2, <3>3
    <2>5. \A i \in 1..Len(received') : i \in 1..Len(received) \/ i = Len(received')
          BY <1>0, <1>w, <1>r, <2>3
    <2>m. /\ 1 \in 1..Len(wire)
          /\ \A j \in 1..Len(wire') : j + 1 \in 1..Len(wire) /\ 1 < j + 1 /\ wire'[j] = wire[j + 1]
          BY <1>w, <2>2
    <2>6. Rising(received') /\ Rising(wire')
      <3>1. ASSUME NEW i \in 1..Len(received'), NEW j \in 1..Len(received'), i < j
            PROVE  received'[i] < received'[j]
        <4>1. i \in 1..Len(received)
              BY <1>w, <2>3, <3>1
        <4>2. CASE j \in 1..Len(received)
              BY <1>r, <2>3, <3>1, <4>1, <4>2
        <4>3. CASE j = Len(received')
              BY <1>r, <2>3, <2>m, <4>1, <4>3
        <4> QED BY <2>5, <4>2, <4>3
      <3>2. ASSUME NEW i \in 1..Len(wire'), NEW j \in 1..Len(wire'), i < j
            PROVE  wire'[i] < wire'[j]
        <4>1. i + 1 < j + 1
              BY <1>w, <2>2, <3>2
        <4> QED BY <1>r, <2>m, <4>1
      <3> QED BY <3>1, <3>2 DEF Rising
    <2>7. ASSUME NEW i \in 1..Len(received'), NEW j \in 1..Len(wire') PROVE received'[i] < wire'[j]
      <3>1. CASE i \in 1..Len(received)
            BY <1>r, <2>3, <2>m, <3>1
      <3>2. CASE i = Len(received')
            BY <1>r, <2>3, <2>m, <3>2
      <3> QED BY <2>5, <3>1, <3>2
    <2>8. ASSUME NEW e PROVE (Contains(received, e) \/ Contains(wire, e)) =>
                             Contains(received', e) \/ Contains(wire', e)
      <3>1. ASSUME NEW i \in 1..Len(wire), i > 1 PROVE Contains(wire', wire[i])
        <4>1. i - 1 \in 1..Len(wire') /\ wire'[i - 1] = wire[i]
              BY <1>0, <1>w, <1>r, <2>2, <3>1
        <4> QED BY <4>1 DEF Contains
      <3>2. Contains(received', wire[1])
            BY <1>0, <1>w, <1>r, <2>3 DEF Contains
      <3>3. Contains(received, e) => Contains(received', e)
            BY <1>0, <1>w, <1>r, <2>3 DEF Contains
      <3>4. ASSUME NEW i \in 1..Len(wire) PROVE Contains(received', wire[i]) \/ Contains(wire', wire[i])
            BY <1>w, <3>1, <3>2
      <3>5. Contains(wire, e) => \E i \in 1..Len(wire) : e = wire[i]
            BY DEF Contains
      <3> QED BY <3>3, <3>4, <3>5
    <2>9. WatchTypeOK'
          BY <1>0, <1>w, <1>r, <2>1, <2>2, <2>3 DEF WatchInv, WatchTypeOK
    <2> QED BY <2>1, <2>4, <2>6, <2>7, <2>8, <2>9 DEF WatchInv
  <1>4. CASE Break
    <2>1. /\ connected' = FALSE /\ wire' = <<>>
          /\ UNCHANGED <<logged, cursor, received, burst>>
          BY <1>4 DEF Break
    <2>2. ASSUME NEW e \in 1..LastEventId PROVE Contains(received, e) \/ e \in burst
      <3>1. received # <<>> /\ LastEventId = received[Len(received)] /\ Len(received) \in 1..Len(received)
            BY <1>0 DEF LastEventId, Last
      <3>2. ~Contains(wire, e)
        <4>1. ASSUME NEW j \in 1..Len(wire), wire[j] = e PROVE FALSE
          <5>1. received[Len(received)] < wire[j] /\ received[Len(received)] \in Nat /\ wire[j] \in Nat
                BY <1>0, <1>w, <1>r, <3>1
          <5>2. e <= received[Len(received)]
                BY <3>1, <5>1
          <5> QED BY <4>1, <5>1, <5>2
        <4> QED BY <4>1 DEF Contains
      <3>3. e \in 1..Newest
        <4>1. CASE wire = <<>>
              BY <4>1 DEF Newest
        <4>2. CASE wire # <<>>
          <5>1. Len(wire) \in 1..Len(wire) /\ Newest = wire[Len(wire)] /\ wire[Len(wire)] \in 1..logged
                BY <1>0, <1>w, <1>r, <4>2 DEF Newest, Last
          <5>2. received[Len(received)] < wire[Len(wire)] /\ received[Len(received)] \in 1..logged
                BY <1>0, <1>w, <1>r, <3>1, <5>1 DEF WatchInv
          <5> QED BY <1>0, <1>w, <1>r, <3>1, <5>1, <5>2
        <4> QED BY <4>1, <4>2
      <3> QED BY <3>2, <3>3 DEF WatchInv
    <2>3. Newest' = LastEventId
          BY <2>1 DEF Newest, LastEventId
    <2>4. Len(wire') = 0
          BY <2>1
    <2> QED BY <1>0, <1>w, <1>r, <2>1, <2>2, <2>3, <2>4 DEF WatchInv, WatchTypeOK, Rising, Contains
  <1>5. CASE Connect
    <2>1. /\ connected' = TRUE /\ cursor' = LastEventId /\ ~connected
          /\ UNCHANGED <<logged, wire, received, burst>>
          BY <1>5 DEF Connect
    <2>2. wire = <<>> /\ LastEventId \in 0..logged
          BY <1>0, <1>w, <1>r, <2>1 DEF WatchInv, WatchTypeOK, LastEventId, Last
    <2> QED BY <1>0, <1>w, <1>r, <2>1, <2>2 DEF WatchInv, WatchTypeOK, Rising, Contains, Newest, LastEventId
  <1>6. CASE UNCHANGED watchVars
        BY <1>6 DEF watchVars, WatchInv, WatchTypeOK, Rising, Contains, Newest, LastEventId
  <1> QED BY <1>1, <1>2, <1>3, <1>4, <1>5, <1>6 DEF WatchNext

LEMMA WatchHolds == WatchSpec => []WatchInv
  BY WatchInitial, WatchStep, PTL DEF WatchSpec

(* The client gets events in order, none twice, and misses only what a burst *)
(* of more than maxEvents took out of its reach, for any window and breaks.  *)
THEOREM WatchStreamFaithful == WatchSpec => []StreamFaithful
  <1>1. WatchInv => ResumesInOrder
        BY DEF WatchInv, Rising, ResumesInOrder
  <1>2. ASSUME WatchInv PROVE GapOnlyOnBurst
    <2> SUFFICES ASSUME received # <<>>, NEW e \in 1..Last(received)
                 PROVE  Contains(received, e) \/ e \in burst
        BY DEF GapOnlyOnBurst
    <2>1. /\ wire \in Seq(1..logged) /\ received \in Seq(1..logged) /\ logged \in Nat
          /\ LastEventId = received[Len(received)] /\ Len(received) \in 1..Len(received)
          /\ e \in 1..received[Len(received)]
          BY <1>2, WatchAssumption DEF WatchInv, WatchTypeOK, LastEventId, Last
    <2>2. ~Contains(wire, e)
      <3>1. ASSUME NEW j \in 1..Len(wire), wire[j] = e PROVE FALSE
        <4>1. /\ received[Len(received)] < wire[j]
              /\ received[Len(received)] \in Nat /\ wire[j] \in Nat
          <5>1. received[Len(received)] \in 1..logged /\ wire[j] \in 1..logged
                BY <2>1
          <5> QED BY <1>2, <2>1, <5>1 DEF WatchInv
        <4> QED BY <2>1, <3>1, <4>1
      <3> QED BY <3>1 DEF Contains
    <2>3. e \in 1..Newest
      <3>1. CASE wire = <<>>
            BY <2>1, <3>1 DEF Newest
      <3>2. CASE wire # <<>>
        <4>1. Len(wire) \in 1..Len(wire) /\ Newest = wire[Len(wire)] /\ wire[Len(wire)] \in 1..logged
              BY <2>1, <3>2 DEF Newest, Last
        <4>2. received[Len(received)] < wire[Len(wire)]
              BY <1>2, <2>1, <4>1 DEF WatchInv
        <4> QED BY <2>1, <4>1, <4>2
      <3> QED BY <3>1, <3>2
    <2> QED BY <1>2, <2>2, <2>3 DEF WatchInv
  <1>3. WatchInv => StreamFaithful
        BY <1>1, <1>2 DEF StreamFaithful
  <1> QED BY <1>3, WatchHolds, PTL

-----------------------------------------------------------------------------
(* Plans. While create visits, the calls under way are a path through the    *)
(* plan, what is visited is closed and has no cycle, and every dependency of *)
(* a node on the path is visited, left to visit, or next on the path.        *)

Deps(n) == submitted.depends_on[n]
OnPath(n) == \E i \in 1..Len(visit.stack) : visit.stack[i] = n
NextOnPath(i) == IF i < Len(visit.stack) THEN {visit.stack[i + 1]} ELSE {}
Founded(V) == \A S \in (SUBSET V) \ {{}} : \E n \in S : Deps(n) \cap S = {}

Visits == [stack : Seq(submitted.ids), visiting : SUBSET submitted.ids,
           visited : SUBSET submitted.ids, roots : SUBSET submitted.ids,
           left : [submitted.ids -> SUBSET submitted.ids]]

VisitShape ==
  /\ visit \in Visits
  /\ \A n \in submitted.ids : visit.left[n] \subseteq Deps(n)

PathInv ==
  /\ \A n \in submitted.ids : n \in visit.visiting <=> OnPath(n)
  /\ \A i, j \in 1..Len(visit.stack) : visit.stack[i] = visit.stack[j] => i = j
  /\ \A i \in 1..Len(visit.stack) :
       /\ NextOnPath(i) \subseteq Deps(visit.stack[i])
       /\ Deps(visit.stack[i]) \subseteq visit.visited \cup visit.left[visit.stack[i]] \cup NextOnPath(i)

VisitedInv ==
  /\ visit.visiting \cap visit.visited = {}
  /\ submitted.ids \subseteq visit.visited \cup visit.visiting \cup visit.roots
  /\ \A n \in submitted.ids \ (visit.visited \cup visit.visiting) : visit.left[n] = Deps(n)
  /\ \A n \in visit.visited : Deps(n) \subseteq visit.visited
  /\ Founded(visit.visited)

VisitInv ==
  verdict = "visiting" => ~Malformed(submitted) /\ VisitShape /\ PathInv /\ VisitedInv

JudgedInv ==
  /\ verdict = "accepted" => ~Malformed(submitted) /\ Acyclic(submitted)
  /\ verdict = "refused" => Malformed(submitted) \/ ~Acyclic(submitted)

Rows == [status : {"absent", "PENDING", "COMPLETED"}, depends_on : SUBSET Nodes,
         result : {"none", "PASS", "FAIL"}]
Runs == [step : {"idle", "run", "upsert"}, node : Nodes \cup {NoNode}, row : Rows]
IsPlan(plan) == plan.ids \subseteq Nodes /\ plan.depends_on \in [plan.ids -> SUBSET Nodes]

GraphShape ==
  /\ node \in [Nodes -> Rows] /\ acting \in [GraphActors -> Runs] /\ IsPlan(submitted)
  /\ verdict \in {"none", "visiting", "refused", "accepted"}
  /\ verdict # "visiting" => visit = NoVisit
  /\ saving \subseteq submitted.ids /\ rewritten \subseteq Nodes
  /\ saving # {} => verdict = "accepted"

RowInv ==
  \A n \in Nodes :
    /\ node[n].depends_on \subseteq Nodes \ {n}
    /\ (node[n].status = "COMPLETED") <=> (node[n].result # "none")
    /\ node[n].status = "absent" => node[n] = NoRow

(* Behind every node a runner has, as behind every node that has a result,   *)
(* all dependencies passed, or were written over since.                      *)
Passes(d) == node[d] = Row("COMPLETED", node[d].depends_on, "PASS") \/ d \in rewritten
Cleared(n) == n \in rewritten \/ \A d \in node[n].depends_on : Passes(d)

RunInv(a) ==
  acting[a].step # "idle" =>
    /\ acting[a].node \in Nodes /\ node[acting[a].node].status # "absent"
    /\ Cleared(acting[a].node)
    /\ acting[a].step = "upsert" =>
         /\ acting[a].row.depends_on \subseteq Nodes \ {acting[a].node}
         /\ \/ acting[a].node \in rewritten
            \/ acting[a].row.depends_on = node[acting[a].node].depends_on

ClearedInv ==
  /\ \A a \in GraphActors : RunInv(a)
  /\ \A n \in Nodes : node[n].status = "COMPLETED" => Cleared(n)

GraphInv == GraphShape /\ RowInv /\ ClearedInv /\ VisitInv /\ JudgedInv

LEMMA NoVisitIs ==
  /\ NoVisit.stack = <<>> /\ NoVisit.visiting = {} /\ NoVisit.visited = {} /\ NoVisit.roots = {}
  BY DEF NoVisit

LEMMA RowIs ==
  ASSUME NEW s, NEW d, NEW r
  PROVE  /\ Row(s, d, r).status = s /\ Row(s, d, r).depends_on = d /\ Row(s, d, r).result = r
         /\ s \in {"absent", "PENDING", "COMPLETED"} /\ d \in SUBSET Nodes /\ r \in {"none", "PASS", "FAIL"}
              => Row(s, d, r) \in Rows
  BY DEF Row, Rows

LEMMA GraphInitial == GraphInit => GraphInv
  <1> SUFFICES ASSUME GraphInit PROVE GraphInv
      OBVIOUS
  <1>1. NoRow \in Rows /\ NoRow.depends_on = {} /\ NoRow.status = "absent" /\ NoRow.result = "none"
        BY RowIs DEF NoRow
  <1>2. IsPlan(NoPlan) /\ Resting \in Runs /\ Resting.step = "idle"
        BY <1>1 DEF IsPlan, NoPlan, Resting, Runs
  <1>3. /\ node = [n \in Nodes |-> NoRow] /\ acting = [a \in GraphActors |-> Resting]
        /\ submitted = NoPlan /\ verdict = "none" /\ visit = NoVisit /\ saving = {} /\ rewritten = {}
        BY DEF GraphInit
  <1>4. GraphShape
        BY <1>1, <1>2, <1>3 DEF GraphShape
  <1>5. RowInv /\ ClearedInv
        BY <1>1, <1>2, <1>3 DEF RowInv, ClearedInv, RunInv
  <1> QED BY <1>3, <1>4, <1>5 DEF GraphInv, VisitInv, JudgedInv

\* What the steps that leave a part alone keep of it.
LEMMA RowsKept ==
  ASSUME RowInv, ClearedInv, UNCHANGED <<node, acting, rewritten>>
  PROVE  RowInv' /\ ClearedInv'
  BY DEF RowInv, ClearedInv, RunInv, Cleared, Passes

LEMMA PlanKept ==
  ASSUME VisitInv, JudgedInv, UNCHANGED <<submitted, verdict, visit>>
  PROVE  VisitInv' /\ JudgedInv'
  BY DEF VisitInv, JudgedInv, VisitShape, Visits, PathInv, VisitedInv, OnPath, NextOnPath, Founded,
         Deps, Malformed, Acyclic

\* Every write over a row that passed, and over a pending one that is created
\* again, is remembered.
LEMMA SaveKeeps ==
  ASSUME GraphShape, NEW n \in Nodes, NEW r \in Rows, SaveNode(n, r)
  PROVE  /\ node' \in [Nodes -> Rows] /\ rewritten \subseteq rewritten' /\ rewritten' \subseteq Nodes
         /\ node'[n] = r /\ \A m \in Nodes \ {n} : node'[m] = node[m]
         /\ \A d \in Nodes : Passes(d) => Passes(d)'
         /\ n \notin rewritten' => n \notin rewritten /\ node[n].status \in {"absent", "PENDING"} \ {r.status}
  <1>1. /\ node' \in [Nodes -> Rows] /\ node'[n] = r /\ \A m \in Nodes \ {n} : node'[m] = node[m]
        BY DEF GraphShape, SaveNode
  <1>2. /\ rewritten \subseteq rewritten' /\ rewritten' \subseteq Nodes
        /\ n \notin rewritten' => n \notin rewritten /\ node[n].status \in {"absent", "PENDING"} \ {r.status}
        BY DEF GraphShape, SaveNode
  <1>3. ASSUME NEW d \in Nodes, Passes(d) PROVE Passes(d)'
    <2>1. CASE d \in rewritten
          BY <1>2, <2>1 DEF Passes
    <2>2. CASE d \notin rewritten
      <3>1. node[d] = Row("COMPLETED", node[d].depends_on, "PASS")
            BY <1>3, <2>2 DEF Passes
      <3>2. node[d].status = "COMPLETED"
            BY <3>1, RowIs
      <3>3. CASE d = n
            BY <1>2, <3>2, <3>3 DEF Passes
      <3>4. CASE d # n
            BY <1>1, <3>1, <3>4 DEF Passes
      <3> QED BY <3>3, <3>4
    <2> QED BY <2>1, <2>2
  <1> QED BY <1>1, <1>2, <1>3

LEMMA CreateKeeps ==
  ASSUME GraphInv, NEW plan \in Submissions, Create(plan)
  PROVE  GraphInv'
  <1>1. IsPlan(plan)
    <2>1. ASSUME plan \in Plans \cup Replans PROVE IsPlan(plan)
          BY <2>1, PlanAssumption DEF IsPlan
    <2>2. ASSUME plan = submitted PROVE IsPlan(plan)
          BY <2>2 DEF GraphInv, GraphShape
    <2> QED BY <2>1, <2>2 DEF Submissions
  <1>2. /\ saving = {} /\ verdict # "visiting" /\ submitted' = plan
        /\ UNCHANGED <<node, saving, acting, rewritten>>
        BY DEF Create
  <1>3. RowInv' /\ ClearedInv'
        BY <1>2, RowsKept DEF GraphInv
  <1>4. CASE Malformed(plan)
    <2>1. verdict' = "refused" /\ visit' = NoVisit /\ Malformed(submitted')
          BY <1>2, <1>4 DEF Create, GraphInv, GraphShape
    <2>2. GraphShape'
          BY <1>1, <1>2, <2>1 DEF GraphInv, GraphShape, IsPlan
    <2>3. VisitInv' /\ JudgedInv'
          BY <2>1 DEF VisitInv, JudgedInv, Malformed
    <2> QED BY <1>3, <2>2, <2>3 DEF GraphInv
  <1>5. CASE ~Malformed(plan)
    <2>1. /\ verdict' = "visiting"
          /\ visit' = [NoVisit EXCEPT !.roots = plan.ids, !.left = plan.depends_on]
          BY <1>2, <1>5 DEF Create
    <2>2. /\ visit'.stack = <<>> /\ visit'.visiting = {} /\ visit'.visited = {}
          /\ visit'.roots = plan.ids /\ visit'.left = plan.depends_on
          BY <2>1 DEF NoVisit
    <2>3. GraphShape'
          BY <1>1, <1>2, <2>1 DEF GraphInv, GraphShape, IsPlan
    <2>4. ~Malformed(submitted)'
          BY <1>2, <1>5 DEF Malformed
    <2>5. VisitShape'
      <3>1. plan.depends_on \in [plan.ids -> SUBSET plan.ids]
            BY <1>1, <1>5 DEF IsPlan, Malformed
      <3>2. visit' = [stack |-> <<>>, visiting |-> {}, visited |-> {}, roots |-> plan.ids,
                      left |-> plan.depends_on]
            BY <2>1 DEF NoVisit
      <3>3. visit' \in Visits'
            BY <1>2, <3>1, <3>2 DEF Visits
      <3> QED BY <1>2, <2>2, <3>3 DEF VisitShape, Deps
    <2>6. PathInv'
          BY <2>2 DEF PathInv, OnPath
    <2>7. VisitedInv'
          BY <1>2, <2>2 DEF VisitedInv, Deps, Founded
    <2>8. VisitInv' /\ JudgedInv'
          BY <2>1, <2>4, <2>5, <2>6, <2>7 DEF VisitInv, JudgedInv
    <2> QED BY <1>3, <2>3, <2>8 DEF GraphInv
  <1> QED BY <1>4, <1>5

LEMMA AppendIs ==
  ASSUME NEW S, NEW s \in Seq(S), NEW e \in S, NEW t, t = Append(s, e)
  PROVE  /\ t \in Seq(S) /\ Len(t) = Len(s) + 1 /\ t[Len(s) + 1] = e
         /\ \A i \in 1..Len(s) : t[i] = s[i]
  BY AppendProperties

\* A dependency that is on the path closes a cycle: from it to the top.
LEMMA PathClosesCycle ==
  ASSUME VisitShape, PathInv, NEW d \in Upcoming, d \in visit.visiting, IsPlan(submitted)
  PROVE  ~Acyclic(submitted)
  <1> DEFINE n == Len(visit.stack)
  <1>1. PICK k \in 1..n : visit.stack[k] = d
    <2>1. d \in submitted.ids
          BY DEF VisitShape, Visits
    <2> QED BY <2>1 DEF PathInv, OnPath
  <1> DEFINE S == {visit.stack[i] : i \in k..n}
  <1>2. /\ n \in Nat /\ visit.stack # <<>> /\ Top = visit.stack[n]
        /\ \A i \in 1..n : visit.stack[i] \in submitted.ids
        BY <1>1 DEF VisitShape, Visits, Top, Last
  <1>3. d \in Deps(Top)
        BY <1>1, <1>2 DEF Upcoming, VisitShape, Visits
  <1>4. S \in (SUBSET submitted.ids) \ {{}}
    <2>1. k \in k..n /\ \A i \in k..n : i \in 1..n
          BY <1>1, <1>2
    <2>2. S \subseteq submitted.ids
          BY <1>2, <2>1
    <2>3. visit.stack[k] \in S
          BY <2>1
    <2> QED BY <2>2, <2>3
  <1>5. ASSUME NEW m \in S PROVE Deps(m) \cap S # {}
    <2>1. PICK i \in k..n : m = visit.stack[i]
          OBVIOUS
    <2>2. CASE i = n
      <3>1. d \in S
            BY <1>1, <1>2
      <3> QED BY <1>2, <1>3, <2>1, <2>2, <3>1
    <2>3. CASE i # n
      <3>1. i + 1 \in k..n /\ i \in 1..n /\ i < n
            BY <1>1, <1>2, <2>3
      <3>2. visit.stack[i + 1] \in Deps(visit.stack[i])
            BY <3>1 DEF PathInv, NextOnPath
      <3>3. visit.stack[i + 1] \in S
            BY <3>1
      <3> QED BY <2>1, <3>2, <3>3
    <2> QED BY <2>2, <2>3
  <1> QED BY <1>4, <1>5 DEF Acyclic, Deps

LEMMA CalledIs ==
  ASSUME VisitShape, NEW d
  PROVE  /\ visit.stack = <<>> =>
              /\ Called(d).stack = visit.stack /\ Called(d).visiting = visit.visiting
              /\ Called(d).visited = visit.visited /\ Called(d).left = visit.left
              /\ Called(d).roots = visit.roots \ {d}
         /\ visit.stack # <<>> =>
              /\ Called(d).stack = visit.stack /\ Called(d).visiting = visit.visiting
              /\ Called(d).visited = visit.visited /\ Called(d).roots = visit.roots
              /\ Called(d).left = [visit.left EXCEPT ![Top] = @ \ {d}]
  BY DEF Called

LEMMA VisitKeeps ==
  ASSUME GraphInv, NEW d \in Nodes, Visit(d)
  PROVE  GraphInv'
  <1>1. /\ verdict = "visiting" /\ d \in Upcoming
        /\ UNCHANGED <<node, submitted, saving, acting, rewritten, creates>>
        BY DEF Visit
  <1>2. ~Malformed(submitted) /\ VisitShape /\ PathInv /\ VisitedInv /\ IsPlan(submitted)
        BY <1>1 DEF GraphInv, VisitInv, GraphShape
  <1>3. RowInv' /\ ClearedInv'
        BY <1>1, RowsKept DEF GraphInv
  <1>s. /\ saving = {} /\ d \in submitted.ids /\ Deps(d) \subseteq submitted.ids
        /\ visit.stack # <<>> => Top \in submitted.ids /\ d \in visit.left[Top] /\ d \in Deps(Top)
        /\ visit.stack = <<>> => d \in visit.roots
    <2>1. saving = {}
          BY <1>1 DEF GraphInv, GraphShape
    <2>2. ASSUME visit.stack # <<>>
          PROVE  Top \in submitted.ids /\ d \in visit.left[Top] /\ d \in Deps(Top) /\ d \in submitted.ids
      <3>1. Top \in submitted.ids
            BY <1>2, <2>2 DEF VisitShape, Visits, Top, Last
      <3> QED BY <1>1, <1>2, <2>2, <3>1 DEF Upcoming, VisitShape, Visits
    <2>3. ASSUME visit.stack = <<>> PROVE d \in visit.roots /\ d \in submitted.ids
          BY <1>1, <1>2, <2>3 DEF Upcoming, VisitShape, Visits
    <2> QED BY <1>2, <2>1, <2>2, <2>3 DEF Malformed, Deps
  <1>4. CASE d \in visit.visiting
    <2>1. verdict' = "refused" /\ visit' = NoVisit
          BY <1>2, <1>4 DEF Visit, VisitedInv
    <2>2. ~Acyclic(submitted)
          BY <1>1, <1>2, <1>4, PathClosesCycle
    <2>3. GraphShape'
          BY <1>1, <1>2, <1>s, <2>1 DEF GraphInv, GraphShape, IsPlan
    <2>4. VisitInv' /\ JudgedInv'
          BY <1>1, <2>1, <2>2 DEF VisitInv, JudgedInv, Acyclic
    <2> QED BY <1>3, <2>3, <2>4 DEF GraphInv
  <1>5. CASE d \notin visit.visiting
    <2>1. verdict' = "visiting"
          BY <1>1, <1>5 DEF Visit
    <2>2. GraphShape' /\ JudgedInv' /\ ~Malformed(submitted)'
          BY <1>1, <1>2, <1>s, <2>1 DEF GraphInv, GraphShape, IsPlan, JudgedInv, Malformed
    <2> DEFINE c == Called(d)
               n == Len(visit.stack)
    <2>v. visit \in Visits /\ Visits' = Visits
          BY <1>1, <1>2 DEF VisitShape, Visits
    <2>i. c \in Visits
          BY <1>s, <2>v DEF Called, Visits
    <2>3. /\ c.stack = visit.stack /\ c.visiting = visit.visiting /\ c.visited = visit.visited
          /\ c.roots \subseteq submitted.ids /\ visit.roots \ {d} \subseteq c.roots
          /\ c.left \in [submitted.ids -> SUBSET submitted.ids]
          /\ \A m \in submitted.ids : c.left[m] \subseteq visit.left[m]
          /\ \A m \in submitted.ids : visit.stack = <<>> \/ m # Top => c.left[m] = visit.left[m]
          /\ visit.stack # <<>> => visit.left[Top] \subseteq c.left[Top] \cup {d}
      <3>1. CASE visit.stack = <<>>
            BY <1>2, <3>1, CalledIs DEF VisitShape, Visits
      <3>2. CASE visit.stack # <<>>
        <4>1. /\ c.stack = visit.stack /\ c.visiting = visit.visiting /\ c.visited = visit.visited
              /\ c.roots = visit.roots /\ c.left = [visit.left EXCEPT ![Top] = @ \ {d}]
              BY <1>2, <3>2, CalledIs
        <4> QED BY <1>2, <1>s, <3>2, <4>1 DEF VisitShape, Visits
      <3> QED BY <3>1, <3>2
    <2> HIDE DEF c
    <2>4. /\ n \in Nat /\ \A i \in 1..n : visit.stack[i] \in submitted.ids /\ visit.stack[i] \in visit.visiting
          /\ visit.stack = <<>> <=> n = 0
          /\ visit.stack # <<>> => n \in 1..n /\ Top = visit.stack[n]
          /\ \A i \in 1..n : i # n => visit.stack # <<>> /\ visit.stack[i] # Top
      <3>1. n \in Nat /\ \A i \in 1..n : visit.stack[i] \in submitted.ids
            BY <1>2 DEF VisitShape, Visits
      <3>2. (visit.stack = <<>> <=> n = 0) /\ (visit.stack # <<>> => n \in 1..n /\ Top = visit.stack[n])
            BY <1>2 DEF VisitShape, Visits, Top, Last
      <3>3. \A i \in 1..n : visit.stack[i] \in visit.visiting
            BY <1>2, <3>1 DEF PathInv, OnPath
      <3>4. \A i \in 1..n : i # n => visit.stack # <<>> /\ visit.stack[i] # Top
            BY <1>2, <3>1, <3>2 DEF PathInv
      <3> QED BY <3>1, <3>2, <3>3, <3>4
    <2>5. \A i \in 1..n : c.left[visit.stack[i]] \subseteq Deps(visit.stack[i])
          BY <1>2, <2>3, <2>4 DEF VisitShape, Visits
    <2>6. CASE d \in visit.visited
      <3>1. visit' = c
            BY <1>1, <1>5, <2>6 DEF Visit, c
      <3>2. VisitShape'
        <4>1. \A m \in submitted.ids : visit'.left[m] \subseteq Deps(m)
              BY <1>2, <2>3, <3>1 DEF VisitShape
        <4> QED BY <1>1, <2>i, <2>v, <3>1, <4>1 DEF VisitShape, Deps
      <3>3. PathInv'
        <4>1. ASSUME NEW i \in 1..n
              PROVE  Deps(visit.stack[i]) \subseteq visit.visited \cup c.left[visit.stack[i]] \cup NextOnPath(i)
          <5>1. Deps(visit.stack[i]) \subseteq visit.visited \cup visit.left[visit.stack[i]] \cup NextOnPath(i)
                BY <1>2 DEF PathInv
          <5>2. visit.left[visit.stack[i]] \subseteq c.left[visit.stack[i]] \cup {d}
                BY <2>3, <2>4
          <5> QED BY <2>6, <5>1, <5>2
        <4> QED BY <1>1, <1>2, <2>3, <3>1, <4>1 DEF PathInv, OnPath, NextOnPath, Deps
      <3>4. VisitedInv'
        <4>1. submitted.ids \subseteq visit.visited \cup visit.visiting \cup c.roots
              BY <1>2, <2>3, <2>6 DEF VisitedInv
        <4>2. \A m \in submitted.ids \ (visit.visited \cup visit.visiting) : c.left[m] = Deps(m)
              BY <1>2, <2>3, <2>4 DEF VisitedInv
        <4> QED BY <1>1, <1>2, <2>3, <3>1, <4>1, <4>2 DEF VisitedInv, Deps, Founded
      <3> QED BY <1>3, <2>1, <2>2, <3>2, <3>3, <3>4 DEF GraphInv, VisitInv
    <2>7. CASE d \notin visit.visited
      <3>1. /\ visit'.stack = Append(visit.stack, d) /\ visit'.visiting = visit.visiting \cup {d}
            /\ visit'.visited = visit.visited /\ visit'.roots = c.roots /\ visit'.left = c.left
        <4>1. visit' = [c EXCEPT !.stack = Append(@, d), !.visiting = @ \cup {d}]
              BY <1>5, <2>7 DEF Visit, c
        <4>2. c.stack = visit.stack /\ c.visiting = visit.visiting /\ c.visited = visit.visited
              BY <2>3
        <4> QED BY <2>i, <4>1, <4>2 DEF Visits
      <3>2. /\ visit'.stack \in Seq(submitted.ids) /\ Len(visit'.stack) = n + 1
            /\ \A i \in 1..n : visit'.stack[i] = visit.stack[i]
            /\ visit'.stack[n + 1] = d
        <4>1. visit.stack \in Seq(submitted.ids)
              BY <1>2 DEF VisitShape, Visits
        <4>2. d \in submitted.ids
              BY <1>s
        <4>3. PICK s \in Seq(submitted.ids) : s = visit.stack
              BY <4>1
        <4>4. PICK t : t = visit'.stack
              OBVIOUS
        <4>5. t = Append(s, d)
              BY <3>1, <4>3, <4>4
        <4>6. /\ t \in Seq(submitted.ids) /\ Len(t) = Len(s) + 1 /\ t[Len(s) + 1] = d
              /\ \A i \in 1..Len(s) : t[i] = s[i]
              BY <4>2, <4>5, AppendIs
        <4> QED BY <4>3, <4>4, <4>6
      <3>3. \A i \in 1..(n + 1) : i \in 1..n \/ i = n + 1
            BY <2>4
      <3>4. VisitShape'
        <4>1. \A m \in submitted.ids : visit'.left[m] \subseteq Deps(m)
              BY <1>2, <2>3, <3>1 DEF VisitShape
        <4>2. visit' = [c EXCEPT !.stack = Append(@, d), !.visiting = @ \cup {d}]
              BY <1>5, <2>7 DEF Visit, c
        <4>3. visit' \in Visits
          <5>1. Append(c.stack, d) \in Seq(submitted.ids)
                BY <1>s, <2>i DEF Visits
          <5> QED BY <1>s, <2>i, <4>2, <5>1 DEF Visits
        <4> QED BY <1>1, <2>v, <4>1, <4>3 DEF VisitShape, Deps
      <3>5. c.left[d] = Deps(d) /\ \A i \in 1..n : visit.stack[i] # d
            BY <1>2, <1>5, <1>s, <2>3, <2>4, <2>7 DEF VisitedInv
      <3>6. PathInv'
        <4>1. ASSUME NEW m \in submitted.ids PROVE (m \in visit.visiting \cup {d}) <=> OnPath(m)'
          <5>1. OnPath(m)' <=> (OnPath(m) \/ m = d)
                BY <2>4, <3>2, <3>3 DEF OnPath
          <5> QED BY <1>2, <5>1 DEF PathInv
        <4>2. \A i, j \in 1..(n + 1) : visit'.stack[i] = visit'.stack[j] => i = j
              BY <1>2, <3>2, <3>3, <3>5 DEF PathInv
        <4>3. ASSUME NEW i \in 1..n
              PROVE  /\ NextOnPath(i)' \subseteq Deps(visit.stack[i])
                     /\ Deps(visit.stack[i]) \subseteq visit.visited \cup c.left[visit.stack[i]] \cup NextOnPath(i)'
          <5>1. Deps(visit.stack[i]) \subseteq visit.visited \cup visit.left[visit.stack[i]] \cup NextOnPath(i)
                BY <1>2 DEF PathInv
          <5>2. CASE i = n
            <6>1. NextOnPath(i)' = {d} /\ NextOnPath(i) = {}
                  BY <2>4, <3>2, <5>2 DEF NextOnPath
            <6>2. visit.stack # <<>> /\ Top = visit.stack[i]
                  BY <2>4, <5>2
            <6> QED BY <1>s, <2>3, <5>1, <6>1, <6>2
          <5>3. CASE i # n
            <6>1. NextOnPath(i)' = NextOnPath(i)
              <7>1. i + 1 \in 1..n /\ i < n /\ i < n + 1
                    BY <2>4, <5>3
              <7>2. visit'.stack[i + 1] = visit.stack[i + 1]
                    BY <3>2, <7>1
              <7> QED BY <3>2, <7>1, <7>2 DEF NextOnPath
            <6>2. c.left[visit.stack[i]] = visit.left[visit.stack[i]]
                  BY <2>3, <2>4, <5>3
            <6> QED BY <1>2, <5>1, <6>1, <6>2 DEF PathInv
          <5> QED BY <5>2, <5>3
        <4>4. ASSUME NEW i \in 1..(n + 1)
              PROVE  /\ NextOnPath(i)' \subseteq Deps(visit'.stack[i])
                     /\ Deps(visit'.stack[i])
                          \subseteq visit'.visited \cup visit'.left[visit'.stack[i]] \cup NextOnPath(i)'
          <5>1. CASE i \in 1..n
                BY <3>1, <3>2, <4>3, <5>1
          <5>2. CASE i = n + 1
            <6>1. NextOnPath(i)' = {} /\ visit'.stack[i] = d
                  BY <2>4, <3>2, <5>2 DEF NextOnPath
            <6> QED BY <3>1, <3>5, <6>1
          <5> QED BY <3>3, <5>1, <5>2
        <4> QED BY <1>1, <3>1, <3>2, <4>1, <4>2, <4>4 DEF PathInv, Deps
      <3>7. VisitedInv'
        <4>1. submitted.ids \subseteq visit.visited \cup visit.visiting \cup {d} \cup c.roots
              BY <1>2, <2>3 DEF VisitedInv
        <4>2. \A m \in submitted.ids \ (visit.visited \cup visit.visiting \cup {d}) : c.left[m] = Deps(m)
              BY <1>2, <2>3, <2>4 DEF VisitedInv
        <4> QED BY <1>1, <1>2, <2>7, <3>1, <4>1, <4>2 DEF VisitedInv, Deps, Founded
      <3> QED BY <1>3, <2>1, <2>2, <3>4, <3>6, <3>7 DEF GraphInv, VisitInv
    <2> QED BY <2>6, <2>7
  <1> QED BY <1>4, <1>5

\* Visited nodes with one more, whose dependencies they are.
LEMMA FoundedGrows ==
  ASSUME NEW V, NEW t, t \notin V, Founded(V),
         \A n \in V : Deps(n) \subseteq V, Deps(t) \subseteq V
  PROVE  Founded(V \cup {t})
  <1> SUFFICES ASSUME NEW S \in (SUBSET (V \cup {t})) \ {{}} PROVE \E n \in S : Deps(n) \cap S = {}
      BY DEF Founded
  <1>1. CASE S \subseteq {t}
        BY <1>1
  <1>2. CASE ~(S \subseteq {t})
    <2>1. S \ {t} \in (SUBSET V) \ {{}}
          BY <1>2
    <2>2. PICK n \in S \ {t} : Deps(n) \cap (S \ {t}) = {}
          BY <2>1 DEF Founded
    <2> QED BY <2>1, <2>2
  <1> QED BY <1>1, <1>2

LEMMA FrontIs ==
  ASSUME NEW S, NEW s \in Seq(S), s # <<>>, NEW t, t = Front(s)
  PROVE  /\ t \in Seq(S) /\ Len(t) = Len(s) - 1 /\ Len(s) \in 1..Len(s)
         /\ \A i \in 1..(Len(s) - 1) : t[i] = s[i]
  <1>1. PICK n \in Nat \ {0} : n = Len(s)
        OBVIOUS
  <1> DEFINE m == n - 1
  <1>2. /\ m \in Nat /\ 1 \in Int /\ m \in Int /\ m - 1 + 1 = m /\ n \in 1..n
        /\ \A i \in 1..m : 1 + i - 1 = i
        BY <1>1
  <1>3. t = SubSeq(s, 1, m) /\ \A i \in 1..m : s[i] \in S
        BY <1>1, <1>2 DEF Front
  <1> HIDE DEF m
  <1>4. /\ t \in Seq(S) /\ Len(t) = IF 1 <= m THEN m - 1 + 1 ELSE 0
        /\ \A i \in 1..(m - 1 + 1) : t[i] = s[1 + i - 1]
        BY <1>2, <1>3, SubSeqProperties
  <1>5. Len(t) = m /\ \A i \in 1..m : t[i] = s[i]
        BY <1>2, <1>4
  <1> QED BY <1>1, <1>2, <1>4, <1>5 DEF m

LEMMA EndVisitKeeps ==
  ASSUME GraphInv, EndVisit
  PROVE  GraphInv'
  <1>1. /\ verdict = "visiting" /\ visit.stack # <<>> /\ visit.left[Top] = {}
        /\ visit' = [visit EXCEPT !.stack = Front(@), !.visiting = Unvisiting(Top),
                                  !.visited = @ \cup {Top}]
        /\ UNCHANGED <<node, submitted, verdict, saving, acting, rewritten>>
        BY DEF EndVisit, Upcoming
  <1>2. ~Malformed(submitted) /\ VisitShape /\ PathInv /\ VisitedInv /\ IsPlan(submitted)
        BY <1>1 DEF GraphInv, VisitInv, GraphShape
  <1>3. RowInv' /\ ClearedInv'
        BY <1>1, RowsKept DEF GraphInv
  <1>4. GraphShape' /\ JudgedInv' /\ ~Malformed(submitted)'
        BY <1>1, <1>2 DEF GraphInv, GraphShape, IsPlan, JudgedInv, Malformed, Acyclic
  <1> DEFINE n == Len(visit.stack)
  <1>v. visit \in Visits /\ Visits' = Visits
        BY <1>1, <1>2 DEF VisitShape, Visits
  <1>5. /\ visit'.stack = Front(visit.stack) /\ visit'.visiting = visit.visiting \ {Top}
        /\ visit'.visited = visit.visited \cup {Top} /\ visit'.roots = visit.roots
        /\ visit'.left = visit.left
        BY <1>1, <1>v DEF Visits, Unvisiting
  <1>6. PICK s \in Seq(submitted.ids) : s = visit.stack
        BY <1>v DEF Visits
  <1>7. PICK t : t = visit'.stack
        OBVIOUS
  <1>8. t = Front(s) /\ s # <<>>
        BY <1>1, <1>5, <1>6, <1>7
  <1>9. /\ t \in Seq(submitted.ids) /\ Len(t) = Len(s) - 1 /\ Len(s) \in 1..Len(s)
        /\ \A i \in 1..(Len(s) - 1) : t[i] = s[i]
        BY <1>8, FrontIs
  <1>a. /\ n \in Nat \ {0} /\ n \in 1..n /\ Top = visit.stack[n] /\ Len(visit'.stack) = n - 1
        /\ visit'.stack \in Seq(submitted.ids)
        /\ \A i \in 1..(n - 1) : i \in 1..n /\ i # n /\ visit'.stack[i] = visit.stack[i]
        BY <1>6, <1>7, <1>9 DEF Top, Last
  <1>b. /\ Top \in submitted.ids /\ Top \in visit.visiting /\ Top \notin visit.visited
        /\ \A i \in 1..n : i # n => visit.stack[i] # Top
    <2>1. Top \in submitted.ids
          BY <1>6, <1>a
    <2>2. Top \in visit.visiting
          BY <1>2, <1>a, <2>1 DEF PathInv, OnPath
    <2>3. \A i \in 1..n : i # n => visit.stack[i] # Top
          BY <1>2, <1>a DEF PathInv
    <2> QED BY <1>2, <2>1, <2>2, <2>3 DEF VisitedInv
  <1>c. Deps(Top) \subseteq visit.visited
    <2>1. Deps(Top) \subseteq visit.visited \cup visit.left[Top] \cup NextOnPath(n)
          BY <1>2, <1>a DEF PathInv
    <2>2. NextOnPath(n) = {}
          BY <1>a DEF NextOnPath
    <2> QED BY <1>1, <2>1, <2>2
  <1>d. VisitShape'
    <2>1. visit' \in Visits
          BY <1>1, <1>v, <1>a, <1>b, <1>5 DEF Visits, Unvisiting
    <2>2. \A m \in submitted.ids : visit'.left[m] \subseteq Deps(m)
          BY <1>2, <1>5 DEF VisitShape
    <2> QED BY <1>1, <1>v, <2>1, <2>2 DEF VisitShape, Deps
  <1>e. PathInv'
    <2>1. ASSUME NEW m \in submitted.ids PROVE (m \in visit.visiting \ {Top}) <=> OnPath(m)'
      <3>1. \A i \in 1..n : i \in 1..(n - 1) \/ i = n
            BY <1>a
      <3>2. OnPath(m)' <=> OnPath(m) /\ m # Top
            BY <1>a, <1>b, <3>1 DEF OnPath
      <3> QED BY <1>2, <3>2 DEF PathInv
    <2>2. \A i, j \in 1..(n - 1) : visit'.stack[i] = visit'.stack[j] => i = j
          BY <1>2, <1>a DEF PathInv
    <2>3. ASSUME NEW i \in 1..(n - 1)
          PROVE  /\ NextOnPath(i)' \subseteq Deps(visit.stack[i])
                 /\ Deps(visit.stack[i])
                      \subseteq visit.visited \cup {Top} \cup visit.left[visit.stack[i]] \cup NextOnPath(i)'
      <3>1. /\ NextOnPath(i) \subseteq Deps(visit.stack[i])
            /\ Deps(visit.stack[i]) \subseteq visit.visited \cup visit.left[visit.stack[i]] \cup NextOnPath(i)
            BY <1>2, <1>a DEF PathInv
      <3>2. NextOnPath(i) = {visit.stack[i + 1]} /\ i + 1 \in 1..n
            BY <1>a DEF NextOnPath
      <3>3. CASE i = n - 1
        <4>1. NextOnPath(i)' = {} /\ visit.stack[i + 1] = Top
              BY <1>a, <3>3 DEF NextOnPath
        <4> QED BY <3>1, <3>2, <4>1
      <3>4. CASE i # n - 1
        <4>1. i < n - 1 /\ i + 1 \in 1..(n - 1)
              BY <1>a, <3>4
        <4>2. NextOnPath(i)' = {visit.stack[i + 1]}
              BY <1>a, <4>1 DEF NextOnPath
        <4> QED BY <3>1, <3>2, <4>2
      <3> QED BY <3>3, <3>4
    <2> QED BY <1>1, <1>5, <1>a, <2>1, <2>2, <2>3 DEF PathInv, Deps
  <1>f. VisitedInv'
    <2>1. Founded(visit.visited \cup {Top})
          BY <1>2, <1>b, <1>c, FoundedGrows DEF VisitedInv
    <2>2. \A m \in visit.visited \cup {Top} : Deps(m) \subseteq visit.visited \cup {Top}
          BY <1>2, <1>c DEF VisitedInv
    <2>3. /\ (visit.visiting \ {Top}) \cap (visit.visited \cup {Top}) = {}
          /\ submitted.ids \subseteq (visit.visited \cup {Top}) \cup (visit.visiting \ {Top}) \cup visit.roots
          /\ (visit.visited \cup {Top}) \cup (visit.visiting \ {Top}) = visit.visited \cup visit.visiting
          BY <1>2, <1>b DEF VisitedInv
    <2>4. \A m \in submitted.ids \ (visit.visited \cup visit.visiting) : visit.left[m] = Deps(m)
          BY <1>2 DEF VisitedInv
    <2> QED BY <1>1, <1>5, <2>1, <2>2, <2>3, <2>4 DEF VisitedInv, Founded, Deps
  <1> QED BY <1>1, <1>3, <1>4, <1>d, <1>e, <1>f DEF GraphInv, VisitInv

LEMMA EndVisitsKeeps ==
  ASSUME GraphInv, EndVisits
  PROVE  GraphInv'
  <1>1. /\ verdict = "visiting" /\ visit.stack = <<>> /\ visit.roots = {}
        /\ verdict' = "accepted" /\ saving' = submitted.ids /\ visit' = NoVisit
        /\ UNCHANGED <<node, submitted, acting, rewritten>>
        BY DEF EndVisits, Upcoming
  <1>2. ~Malformed(submitted) /\ VisitShape /\ PathInv /\ VisitedInv /\ IsPlan(submitted)
        BY <1>1 DEF GraphInv, VisitInv, GraphShape
  <1>3. RowInv' /\ ClearedInv'
        BY <1>1, RowsKept DEF GraphInv
  <1>4. GraphShape'
        BY <1>1 DEF GraphInv, GraphShape, IsPlan
  <1>5. visit.visiting = {}
    <2>1. Len(visit.stack) = 0 /\ visit.visiting \subseteq submitted.ids
          BY <1>1, <1>2 DEF VisitShape, Visits
    <2> QED BY <1>2, <2>1 DEF PathInv, OnPath
  <1>6. visit.visited = submitted.ids
        BY <1>1, <1>2, <1>5 DEF VisitedInv, VisitShape, Visits
  <1>7. Acyclic(submitted)
        BY <1>2, <1>6 DEF VisitedInv, Founded, Acyclic, Deps
  <1>8. VisitInv' /\ JudgedInv'
        BY <1>1, <1>2, <1>7 DEF VisitInv, JudgedInv, Malformed, Acyclic
  <1> QED BY <1>3, <1>4, <1>8 DEF GraphInv

LEMMA CreateDiesKeeps ==
  ASSUME GraphInv, CreateDies
  PROVE  GraphInv'
  <1>1. /\ saving' = {} /\ visit' = NoVisit /\ UNCHANGED <<node, submitted, acting, rewritten>>
        /\ verdict' = IF verdict = "visiting" THEN "none" ELSE verdict
        BY DEF CreateDies
  <1>2. RowInv' /\ ClearedInv'
        BY <1>1, RowsKept DEF GraphInv
  <1>3. GraphShape'
        BY <1>1 DEF GraphInv, GraphShape, IsPlan
  <1>4. VisitInv' /\ JudgedInv'
        BY <1>1 DEF GraphInv, VisitInv, JudgedInv, Malformed, Acyclic
  <1> QED BY <1>2, <1>3, <1>4 DEF GraphInv

LEMMA CreateNodeKeeps ==
  ASSUME GraphInv, NEW n \in Nodes, CreateNode(n)
  PROVE  GraphInv'
  <1> DEFINE r == Row("PENDING", submitted.depends_on[n], "none")
  <1>1. /\ n \in saving /\ saving' = saving \ {n} /\ SaveNode(n, r)
        /\ UNCHANGED <<submitted, verdict, visit, acting>>
        BY DEF CreateNode
  <1>2. /\ verdict = "accepted" /\ n \in submitted.ids /\ ~Malformed(submitted) /\ IsPlan(submitted)
        BY <1>1 DEF GraphInv, GraphShape, JudgedInv
  <1>3. /\ r \in Rows /\ r.status = "PENDING" /\ r.result = "none"
        /\ r.depends_on = submitted.depends_on[n] /\ r.depends_on \subseteq Nodes \ {n}
    <2>1. submitted.depends_on[n] \subseteq Nodes \ {n}
          BY <1>2 DEF Malformed, IsPlan
    <2> QED BY <2>1, RowIs
  <1> HIDE DEF r
  <1>4. /\ node' \in [Nodes -> Rows] /\ rewritten \subseteq rewritten' /\ rewritten' \subseteq Nodes
        /\ node'[n] = r /\ \A m \in Nodes \ {n} : node'[m] = node[m]
        /\ \A d \in Nodes : Passes(d) => Passes(d)'
        /\ n \notin rewritten' => n \notin rewritten /\ node[n].status = "absent"
        BY <1>1, <1>3, SaveKeeps DEF GraphInv
  <1>5. GraphShape'
        BY <1>1, <1>4 DEF GraphInv, GraphShape, IsPlan
  <1>6. RowInv'
        BY <1>3, <1>4 DEF GraphInv, RowInv
  <1>7. ASSUME NEW m \in Nodes, m # n \/ m \in rewritten', Cleared(m) PROVE Cleared(m)'
        BY <1>4, <1>7 DEF GraphInv, RowInv, Cleared
  <1>8. ClearedInv'
    <2>1. ASSUME NEW a \in GraphActors PROVE RunInv(a)'
      <3>1. CASE acting[a].step = "idle"
            BY <1>1, <3>1 DEF RunInv
      <3>2. CASE acting[a].step # "idle"
        <4>1. /\ acting[a].node \in Nodes /\ node[acting[a].node].status # "absent"
              /\ Cleared(acting[a].node)
              BY <3>2 DEF GraphInv, ClearedInv, RunInv
        <4>2. acting[a].node # n \/ acting[a].node \in rewritten'
              BY <1>4, <4>1
        <4>3. Cleared(acting[a].node)' /\ node'[acting[a].node].status # "absent"
              BY <1>1, <1>3, <1>4, <1>7, <4>1, <4>2 DEF Cleared, Passes
        <4> QED BY <1>1, <1>4, <3>2, <4>1, <4>2, <4>3 DEF GraphInv, ClearedInv, RunInv
      <3> QED BY <3>1, <3>2
    <2>2. ASSUME NEW m \in Nodes, node'[m].status = "COMPLETED" PROVE Cleared(m)'
          BY <1>3, <1>4, <1>7, <2>2 DEF GraphInv, ClearedInv
    <2> QED BY <2>1, <2>2 DEF ClearedInv
  <1>9. VisitInv' /\ JudgedInv'
        BY <1>1, PlanKept DEF GraphInv
  <1> QED BY <1>5, <1>6, <1>8, <1>9 DEF GraphInv

\* A runner's own steps change no row and no plan.
LEMMA RunnerKeeps ==
  ASSUME GraphInv, NEW a \in GraphActors, NEW x \in Runs, acting' = [acting EXCEPT ![a] = x],
         UNCHANGED <<node, submitted, verdict, visit, saving, rewritten>>,
         x.step # "idle" =>
           /\ x.node \in Nodes /\ node[x.node].status # "absent" /\ Cleared(x.node)
           /\ x.step = "upsert" => /\ x.row.depends_on \subseteq Nodes \ {x.node}
                                   /\ x.row.depends_on = node[x.node].depends_on
  PROVE  GraphInv'
  <1>1. /\ acting' \in [GraphActors -> Runs] /\ acting'[a] = x
        /\ \A b \in GraphActors \ {a} : acting'[b] = acting[b]
        BY DEF GraphInv, GraphShape
  <1>2. GraphShape' /\ RowInv'
        BY <1>1 DEF GraphInv, GraphShape, IsPlan, RowInv
  <1>3. \A b \in GraphActors : RunInv(b)'
        BY <1>1 DEF GraphInv, ClearedInv, RunInv, Cleared, Passes
  <1>4. \A n \in Nodes : node'[n].status = "COMPLETED" => Cleared(n)'
        BY DEF GraphInv, ClearedInv, Cleared, Passes
  <1>5. VisitInv' /\ JudgedInv'
        BY PlanKept DEF GraphInv
  <1> QED BY <1>2, <1>3, <1>4, <1>5 DEF GraphInv, ClearedInv

LEMMA TakeReadyKeeps ==
  ASSUME GraphInv, NEW a \in GraphActors, NEW n \in Nodes, TakeReady(a, n)
  PROVE  GraphInv'
  <1> DEFINE x == [step |-> "run", node |-> n, row |-> NoRow]
  <1>1. /\ n \in Ready /\ acting' = [acting EXCEPT ![a] = x]
        /\ UNCHANGED <<node, submitted, verdict, visit, saving, rewritten>>
        BY DEF TakeReady
  <1>2. x \in Runs /\ x.step = "run" /\ x.node = n
    <2>1. NoRow \in Rows
          BY RowIs DEF NoRow
    <2> QED BY <2>1 DEF Runs
  <1> HIDE DEF x
  <1>3. node[n].status = "PENDING" /\ Cleared(n)
    <2>1. node[n].status = "PENDING" /\ \A d \in node[n].depends_on : PassedNode(d)
          BY <1>1 DEF Ready
    <2>2. ASSUME NEW d \in node[n].depends_on PROVE Passes(d)
      <3>1. d \in Nodes /\ node[d] \in Rows
            BY DEF GraphInv, GraphShape, Rows
      <3>2. node[d].status = "COMPLETED" /\ node[d].result = "PASS"
            BY <2>1 DEF PassedNode
      <3> QED BY <3>1, <3>2 DEF Passes, Row, Rows
    <2> QED BY <2>1, <2>2 DEF Cleared
  <1> QED BY <1>1, <1>2, <1>3, RunnerKeeps

LEMMA StartCompleteKeeps ==
  ASSUME GraphInv, NEW a \in GraphActors, StartComplete(a)
  PROVE  GraphInv'
  <1> DEFINE n == acting[a].node
             r == node[n]
             x == IF r.status = "PENDING" THEN [acting[a] EXCEPT !.step = "upsert", !.row = r] ELSE Resting
  <1>1. /\ acting[a].step = "run" /\ acting' = [acting EXCEPT ![a] = x]
        /\ UNCHANGED <<node, submitted, verdict, visit, saving, rewritten>>
        BY DEF StartComplete
  <1>2. n \in Nodes /\ Cleared(n) /\ r \in Rows /\ acting[a] \in Runs
        BY <1>1 DEF GraphInv, GraphShape, ClearedInv, RunInv
  <1>3. CASE r.status = "PENDING"
    <2>1. x \in Runs /\ x.step = "upsert" /\ x.node = n /\ x.row = r
          BY <1>2, <1>3 DEF Runs
    <2>2. r.depends_on \subseteq Nodes \ {n}
          BY <1>2 DEF GraphInv, RowInv
    <2> HIDE DEF x
    <2> QED BY <1>1, <1>2, <1>3, <2>1, <2>2, RunnerKeeps
  <1>4. CASE r.status # "PENDING"
    <2>1. x = Resting /\ Resting \in Runs /\ Resting.step = "idle"
      <3>1. NoRow \in Rows
            BY RowIs DEF NoRow
      <3> QED BY <1>4, <3>1 DEF Resting, Runs
    <2> HIDE DEF x
    <2> QED BY <1>1, <2>1, RunnerKeeps
  <1> QED BY <1>3, <1>4

LEMMA CompleteNodeKeeps ==
  ASSUME GraphInv, NEW a \in GraphActors, NEW result \in {"PASS", "FAIL"}, CompleteNode(a, result)
  PROVE  GraphInv'
  <1> DEFINE n == acting[a].node
             deps == acting[a].row.depends_on
             r == Row("COMPLETED", deps, result)
  <1>1. /\ acting[a].step = "upsert" /\ SaveNode(n, r) /\ acting' = [acting EXCEPT ![a] = Resting]
        /\ UNCHANGED <<submitted, verdict, visit, saving>>
        BY DEF CompleteNode
  <1>2. /\ n \in Nodes /\ Cleared(n) /\ deps \subseteq Nodes \ {n}
        /\ n \in rewritten \/ deps = node[n].depends_on
        BY <1>1 DEF GraphInv, ClearedInv, RunInv
  <1>3. /\ r \in Rows /\ r.status = "COMPLETED" /\ r.result = result /\ r.depends_on = deps
        BY <1>2, RowIs
  <1> HIDE DEF r
  <1>4. /\ node' \in [Nodes -> Rows] /\ rewritten \subseteq rewritten' /\ rewritten' \subseteq Nodes
        /\ node'[n] = r /\ \A m \in Nodes \ {n} : node'[m] = node[m]
        /\ \A d \in Nodes : Passes(d) => Passes(d)'
        /\ n \notin rewritten' => n \notin rewritten
        BY <1>1, <1>2, <1>3, SaveKeeps DEF GraphInv
  <1>5. /\ acting' \in [GraphActors -> Runs] /\ acting'[a] = Resting /\ Resting.step = "idle"
        /\ \A b \in GraphActors \ {a} : acting'[b] = acting[b]
    <2>1. NoRow \in Rows
          BY RowIs DEF NoRow
    <2>2. Resting \in Runs /\ Resting.step = "idle"
          BY <2>1 DEF Resting, Runs
    <2> QED BY <1>1, <2>2 DEF GraphInv, GraphShape
  <1>6. GraphShape'
        BY <1>1, <1>4, <1>5 DEF GraphInv, GraphShape, IsPlan
  <1>7. RowInv'
        BY <1>2, <1>3, <1>4 DEF GraphInv, RowInv
  <1>8. ASSUME NEW m \in Nodes, Cleared(m) PROVE Cleared(m)'
    <2>1. CASE m \in rewritten'
          BY <2>1 DEF Cleared
    <2>2. CASE m \notin rewritten'
      <3>1. node'[m].depends_on = node[m].depends_on
            BY <1>2, <1>3, <1>4, <2>2
      <3>2. \A d \in node[m].depends_on : d \in Nodes /\ Passes(d)
            BY <1>4, <1>8, <2>2 DEF GraphInv, RowInv, Cleared
      <3> QED BY <1>4, <3>1, <3>2 DEF Cleared
    <2> QED BY <2>1, <2>2
  <1>9. ClearedInv'
    <2>1. ASSUME NEW b \in GraphActors PROVE RunInv(b)'
      <3>1. CASE acting'[b].step = "idle"
            BY <3>1 DEF RunInv
      <3>2. CASE acting'[b].step # "idle"
        <4>1. acting'[b] = acting[b] /\ acting[b].step # "idle"
              BY <1>5, <3>2
        <4>2. /\ acting[b].node \in Nodes /\ node[acting[b].node].status # "absent"
              /\ Cleared(acting[b].node)
              BY <4>1 DEF GraphInv, ClearedInv, RunInv
        <4>3. PICK m \in Nodes : m = acting[b].node
              BY <4>2
        <4>4. Cleared(m)' /\ node'[m].status # "absent"
              BY <1>3, <1>4, <1>8, <4>2, <4>3
        <4>5. m \notin rewritten' => node'[m].depends_on = node[m].depends_on
              BY <1>2, <1>3, <1>4
        <4> QED BY <1>4, <4>1, <4>3, <4>4, <4>5 DEF GraphInv, ClearedInv, RunInv, Cleared
      <3> QED BY <3>1, <3>2
    <2>2. ASSUME NEW m \in Nodes, node'[m].status = "COMPLETED" PROVE Cleared(m)'
          BY <1>2, <1>4, <1>8, <2>2 DEF GraphInv, ClearedInv
    <2> QED BY <2>1, <2>2 DEF ClearedInv
  <1>a. VisitInv' /\ JudgedInv'
        BY <1>1, PlanKept DEF GraphInv
  <1> QED BY <1>6, <1>7, <1>9, <1>a DEF GraphInv

LEMMA GraphStep == GraphInv /\ [GraphNext]_graphVars => GraphInv'
  <1> SUFFICES ASSUME GraphInv, [GraphNext]_graphVars PROVE GraphInv'
      OBVIOUS
  <1>1. CASE UNCHANGED graphVars
    <2>1. UNCHANGED <<node, submitted, verdict, visit, saving, acting, rewritten>>
          BY <1>1 DEF graphVars
    <2>2. GraphShape'
          BY <2>1 DEF GraphInv, GraphShape, IsPlan
    <2> QED BY <2>1, <2>2, RowsKept, PlanKept DEF GraphInv
  <1>2. CASE GraphNext
        BY <1>2, CreateKeeps, VisitKeeps, CreateNodeKeeps, EndVisitKeeps, EndVisitsKeeps, CreateDiesKeeps,
           TakeReadyKeeps, StartCompleteKeeps, CompleteNodeKeeps DEF GraphNext
  <1> QED BY <1>1, <1>2

LEMMA GraphHolds == GraphSpec => []GraphInv
  BY GraphInitial, GraphStep, PTL DEF GraphSpec

(* create accepts exactly the acyclic plans over their own nodes, and what   *)
(* it accepted and saved does not get stuck, for any plan and any runners.   *)
THEOREM GraphPlansRunToTheEnd == GraphSpec => []PlansRunToTheEnd
  <1>1. ASSUME GraphInv PROVE CyclesRefused
    <2> DEFINE named == UNION {submitted.depends_on[n] : n \in submitted.ids}
    <2>1. ASSUME verdict = "accepted" PROVE Acyclic(submitted) /\ named \subseteq submitted.ids
          BY <1>1, <2>1 DEF GraphInv, JudgedInv, Malformed
    <2>2. ASSUME verdict = "refused", Acyclic(submitted), named \subseteq submitted.ids PROVE FALSE
      <3>1. PICK n \in submitted.ids : ~(submitted.depends_on[n] \subseteq submitted.ids \ {n})
            BY <1>1, <2>2 DEF GraphInv, JudgedInv, Malformed
      <3>2. n \in submitted.depends_on[n]
            BY <2>2, <3>1
      <3>3. {n} \in (SUBSET submitted.ids) \ {{}}
            OBVIOUS
      <3> QED BY <2>2, <3>2, <3>3 DEF Acyclic
    <2> QED BY <2>1, <2>2 DEF CyclesRefused
  <1>2. ASSUME GraphInv PROVE GraphNotStuck
    <2> SUFFICES ASSUME verdict = "accepted",
                        \A n \in submitted.ids :
                          \/ node[n].status = "COMPLETED"
                          \/ node[n] = Row("PENDING", submitted.depends_on[n], "none"),
                        \A n \in submitted.ids : node[n].result # "FAIL",
                        \E n \in submitted.ids : node[n].status # "COMPLETED"
                 PROVE  Ready # {}
        BY DEF GraphNotStuck
    <2> DEFINE P == {n \in submitted.ids : node[n].status # "COMPLETED"}
    <2>1. Acyclic(submitted) /\ ~Malformed(submitted) /\ submitted.ids \subseteq Nodes
          BY <1>2 DEF GraphInv, JudgedInv, GraphShape, IsPlan
    <2>2. PICK n \in P : submitted.depends_on[n] \cap P = {}
          BY <2>1 DEF Acyclic
    <2>3. node[n].status = "PENDING" /\ node[n].depends_on = submitted.depends_on[n]
          BY <2>2, RowIs
    <2>4. ASSUME NEW d \in node[n].depends_on PROVE PassedNode(d)
      <3>1. d \in submitted.ids /\ d \in Nodes /\ node[d].status = "COMPLETED"
            BY <2>1, <2>2, <2>3 DEF Malformed
      <3>2. node[d].result \in {"none", "PASS", "FAIL"} /\ node[d].result # "none"
            BY <1>2, <3>1 DEF GraphInv, GraphShape, RowInv, Rows
      <3> QED BY <3>1, <3>2 DEF PassedNode
    <2> QED BY <2>1, <2>3, <2>4 DEF Ready
  <1>3. GraphInv => PlansRunToTheEnd
        BY <1>1, <1>2 DEF PlansRunToTheEnd
  <1> QED BY <1>3, GraphHolds, PTL

(* Behind every result is a barrier of passed dependencies, whatever runners *)
(* race for a node, but where a row was written over.                        *)
THEOREM GraphBarrierHeld == GraphSpec => []BarrierHeld
  <1>1. GraphInv => BarrierHeld
        BY DEF GraphInv, ClearedInv, Cleared, Passes, BarrierHeld
  <1> QED BY <1>1, GraphHolds, PTL

-----------------------------------------------------------------------------
(* Notifications. Who has a pending row in hand may still send it, who sent  *)
(* it has yet to mark it: the sends of a row are counted by the hosts that   *)
(* mark it and, once it is delivered, bounded by the hosts that still hold it. *)

Drains == [step : {"idle", "enqueue", "send", "mark"}, list : SUBSET Notes]
Deliveries == [status : {"PENDING", "DELIVERED"}, created : Nat]
Present == {n \in Notes : delivery[n] # Absent}

InHand(h, n) == draining[h].step \in {"send", "mark"} /\ n \in draining[h].list
Marks(h, n) == draining[h].step = "mark" /\ NextNote(h, n)
Marking(n) == {h \in Senders : Marks(h, n)}
Holding(n) == {h \in Senders : InHand(h, n) /\ ~Marks(h, n)}

NotifyShape ==
  /\ attention \in [Attentions -> {"none", "open", "closed"}]
  /\ delivery \in [Notes -> {Absent} \cup Deliveries] /\ sent \in [Notes -> Nat]
  /\ draining \in [Senders -> Drains] /\ resends \in Nat
  /\ rows = Cardinality(Present)
  /\ \A n \in Present : delivery[n].created \in 1..rows
  /\ \A m, n \in Present : m # n => delivery[m].created # delivery[n].created

HandsInv ==
  \A h \in Senders :
    /\ \A n \in Notes : InHand(h, n) => n \in Present
    /\ draining[h].step = "mark" => \E n \in Notes : NextNote(h, n)
    /\ \A n \in Notes : Marks(h, n) => sent[n] > 0

CountInv(n) ==
  /\ delivery[n] = Absent => sent[n] = 0
  /\ delivery[n] # Absent /\ delivery[n].status = "PENDING"
       => sent[n] <= Cardinality(Marking(n)) + resends
  /\ delivery[n] # Absent /\ delivery[n].status = "DELIVERED"
       => sent[n] > 0 /\ sent[n] + Cardinality(Holding(n)) <= Cardinality(Senders) + resends

NotifyInv == NotifyShape /\ HandsInv /\ \A n \in Notes : CountInv(n)

LEMMA NotesFinite == IsFiniteSet(Notes) /\ IsFiniteSet(Present) /\ Cardinality(Present) <= Cardinality(Notes)
  <1>1. IsFiniteSet(Attentions) /\ IsFiniteSet(Transports)
        BY NotifyAssumption, FS_Interval DEF Attentions, Transports
  <1>2. IsFiniteSet(Notes)
        BY <1>1, FS_Product DEF Notes
  <1>3. Present \in SUBSET Notes
        BY DEF Present
  <1> QED BY <1>2, <1>3, FS_Subset

LEMMA HandsCounted ==
  ASSUME NEW n
  PROVE  /\ IsFiniteSet(Marking(n)) /\ Cardinality(Marking(n)) \in Nat
         /\ IsFiniteSet(Holding(n)) /\ Cardinality(Holding(n)) \in Nat
         /\ Cardinality(Marking(n)) + Cardinality(Holding(n)) <= Cardinality(Senders)
         /\ Cardinality(Senders) \in Nat
  <1>1. Marking(n) \in SUBSET Senders /\ Holding(n) \in SUBSET Senders /\ Marking(n) \cap Holding(n) = {}
        BY DEF Marking, Holding
  <1>2. IsFiniteSet(Marking(n)) /\ IsFiniteSet(Holding(n))
        BY <1>1, NotifyAssumption, FS_Subset
  <1>3. /\ Cardinality(Marking(n)) \in Nat /\ Cardinality(Holding(n)) \in Nat
        /\ Cardinality(Senders) \in Nat
        BY <1>2, NotifyAssumption, FS_CardinalityType
  <1>4. Cardinality(Marking(n) \cup Holding(n)) = Cardinality(Marking(n)) + Cardinality(Holding(n))
    <2>1. Cardinality(Marking(n) \cap Holding(n)) = 0
          BY <1>1, FS_EmptySet
    <2>2. Cardinality(Marking(n) \cup Holding(n))
            = Cardinality(Marking(n)) + Cardinality(Holding(n)) - Cardinality(Marking(n) \cap Holding(n))
          BY <1>2, FS_Union
    <2> QED BY <1>3, <2>1, <2>2
  <1>5. Cardinality(Marking(n) \cup Holding(n)) <= Cardinality(Senders)
    <2>1. Marking(n) \cup Holding(n) \in SUBSET Senders
          BY <1>1
    <2> QED BY <2>1, NotifyAssumption, FS_Subset
  <1> QED BY <1>2, <1>3, <1>4, <1>5

LEMMA NotifyInitial == NotifyInit => NotifyInv
  <1> SUFFICES ASSUME NotifyInit PROVE NotifyInv
      OBVIOUS
  <1>1. NotDraining \in Drains /\ NotDraining.step = "idle"
        BY DEF NotDraining, Drains
  <1>2. /\ attention = [a \in Attentions |-> "none"] /\ delivery = [n \in Notes |-> Absent]
        /\ sent = [n \in Notes |-> 0] /\ draining = [h \in Senders |-> NotDraining]
        /\ resends = 0 /\ rows = 0
        BY DEF NotifyInit
  <1>3. Present = {} /\ Cardinality({}) = 0
        BY <1>2, FS_EmptySet DEF Present
  <1>4. NotifyShape
        BY <1>1, <1>2, <1>3 DEF NotifyShape
  <1>5. HandsInv
        BY <1>1, <1>2 DEF HandsInv, InHand, Marks
  <1>6. \A n \in Notes : CountInv(n)
        BY <1>2 DEF CountInv
  <1> QED BY <1>4, <1>5, <1>6 DEF NotifyInv

\* The oldest row in hand is one: no two rows are of the same age.
LEMMA OneNext ==
  ASSUME NotifyShape, NEW L \in SUBSET Present, NEW m \in L, NEW n \in L,
         \A x \in L : ~Older(x, m), \A x \in L : ~Older(x, n)
  PROVE  m = n
  <1>1. delivery[m].created \in Nat /\ delivery[n].created \in Nat
        BY DEF NotifyShape, Present, Deliveries
  <1>2. delivery[m].created = delivery[n].created
        BY <1>1 DEF Older
  <1> QED BY <1>2 DEF NotifyShape

\* What a host does with its list, the hands of the others keep.
LEMMA HandsStep ==
  ASSUME NotifyShape, HandsInv, NEW h \in Senders, NEW d \in Drains, DrainTo(h, d),
         \A m \in Present : m \in Present' /\ delivery'[m].created = delivery[m].created,
         d.step \in {"send", "mark"} => d.list \subseteq Present,
         NEW k \in Notes
  PROVE  /\ draining' \in [Senders -> Drains]
         /\ Marking(k)' \subseteq Senders /\ Holding(k)' \subseteq Senders
         /\ \A x \in Senders \ {h} : (x \in Marking(k)' <=> x \in Marking(k)) /\ (x \in Holding(k)' <=> x \in Holding(k))
         /\ h \in Marking(k)' <=> (d.step = "mark" /\ k \in d.list /\ \A m \in d.list : ~Older(m, k))
         /\ h \in Holding(k)' <=> (d.step \in {"send", "mark"} /\ k \in d.list /\ h \notin Marking(k)')
  <1>1. /\ draining' \in [Senders -> Drains] /\ draining'[h] = d
        /\ \A x \in Senders \ {h} : draining'[x] = draining[x]
        BY DEF DrainTo, NotifyShape
  <1>2. ASSUME NEW x \in Senders, NEW L, L = draining'[x].list, L \subseteq Present, k \in L
        PROVE  \A m \in L : delivery'[m].created < delivery'[k].created <=> Older(m, k)
        BY <1>2 DEF Older
  <1>3. Marking(k)' \subseteq Senders /\ Holding(k)' \subseteq Senders
        BY DEF Marking, Holding
  <1>4. ASSUME NEW x \in Senders \ {h}
        PROVE  (x \in Marking(k)' <=> x \in Marking(k)) /\ (x \in Holding(k)' <=> x \in Holding(k))
    <2>1. draining'[x] = draining[x]
          BY <1>1
    <2>2. CASE draining[x].step \in {"send", "mark"}
      <3>1. \A m \in draining[x].list : m \in Notes /\ m \in Present
            BY <2>2 DEF HandsInv, InHand, NotifyShape, Drains
      <3> QED BY <1>2, <2>1, <3>1 DEF Marking, Holding, Marks, InHand, NextNote, Older
    <2>3. CASE draining[x].step \notin {"send", "mark"}
          BY <2>1, <2>3 DEF Marking, Holding, Marks, InHand
    <2> QED BY <2>2, <2>3
  <1>5. h \in Marking(k)' <=> (d.step = "mark" /\ k \in d.list /\ \A m \in d.list : ~Older(m, k))
        BY <1>1, <1>2 DEF Marking, Marks, NextNote, Older
  <1>6. h \in Holding(k)' <=> (d.step \in {"send", "mark"} /\ k \in d.list /\ h \notin Marking(k)')
        BY <1>1 DEF Marking, Holding, InHand
  <1> QED BY <1>1, <1>3, <1>4, <1>5, <1>6

LEMMA HandsKeep ==
  ASSUME NotifyShape, HandsInv, NEW h \in Senders, NEW d \in Drains, DrainTo(h, d),
         \A m \in Present : m \in Present' /\ delivery'[m].created = delivery[m].created,
         d.step \in {"send", "mark"} => d.list \subseteq Present,
         \A n \in Notes : sent[n] > 0 => sent'[n] > 0,
         d.step = "mark" => \E n \in d.list : \A m \in d.list : ~Older(m, n),
         d.step = "mark" => \A n \in d.list : (\A m \in d.list : ~Older(m, n)) => sent'[n] > 0
  PROVE  HandsInv'
  <1>1. /\ draining' \in [Senders -> Drains] /\ draining'[h] = d
        /\ \A x \in Senders \ {h} : draining'[x] = draining[x]
        BY DEF DrainTo, NotifyShape
  <1>2. ASSUME NEW x \in Senders, draining'[x].step \in {"send", "mark"}
        PROVE  draining'[x].list \subseteq Present /\ draining'[x].list \subseteq Notes
    <2>1. CASE x = h
          BY <1>1, <1>2, <2>1 DEF Drains
    <2>2. CASE x # h
          BY <1>1, <1>2, <2>2 DEF HandsInv, InHand, NotifyShape, Drains
    <2> QED BY <2>1, <2>2
  <1>3. ASSUME NEW x \in Senders, draining'[x].step = "mark"
        PROVE  /\ \E n \in Notes : n \in draining'[x].list /\ \A m \in draining'[x].list : ~Older(m, n)
               /\ \A n \in Notes : (n \in draining'[x].list /\ \A m \in draining'[x].list : ~Older(m, n))
                    => sent'[n] > 0
    <2>1. CASE x = h
          BY <1>1, <1>3, <2>1 DEF Drains
    <2>2. CASE x # h
          BY <1>1, <1>3, <2>2 DEF HandsInv, Marks, NextNote
    <2> QED BY <2>1, <2>2
  <1>4. ASSUME NEW x \in Senders, draining'[x].step \in {"send", "mark"}, NEW n \in draining'[x].list
        PROVE  (\A m \in draining'[x].list : ~Older(m, n)) <=> (\A m \in draining'[x].list : ~Older(m, n)')
        BY <1>2, <1>4 DEF Older
  <1>5. ASSUME NEW x \in Senders PROVE \A n \in Notes : InHand(x, n)' => n \in Present'
        BY <1>2 DEF InHand
  <1>6. ASSUME NEW x \in Senders, draining'[x].step = "mark" PROVE \E n \in Notes : NextNote(x, n)'
        BY <1>3, <1>4, <1>6 DEF NextNote
  <1>7. ASSUME NEW x \in Senders PROVE \A n \in Notes : Marks(x, n)' => sent'[n] > 0
        BY <1>3, <1>4 DEF Marks, NextNote
  <1> QED BY <1>5, <1>6, <1>7 DEF HandsInv

\* Hands that keep a row, or let go of it, keep its count.
LEMMA CountKept ==
  ASSUME NEW k \in Notes, CountInv(k), sent[k] \in Nat, resends \in Nat, resends' \in Nat, resends' >= resends,
         (delivery[k] = Absent) <=> (delivery'[k] = Absent),
         delivery'[k] # Absent => delivery'[k].status = delivery[k].status,
         sent'[k] = sent[k], Marking(k) \subseteq Marking(k)', Holding(k)' \subseteq Holding(k)
  PROVE  CountInv(k)'
  <1>1. /\ IsFiniteSet(Marking(k)') /\ Cardinality(Marking(k)') \in Nat
        /\ Cardinality(Holding(k)') \in Nat
    <2>1. Marking(k)' \in SUBSET Senders /\ Holding(k)' \in SUBSET Senders
          BY DEF Marking, Holding
    <2>2. IsFiniteSet(Marking(k)') /\ IsFiniteSet(Holding(k)')
          BY <2>1, NotifyAssumption, FS_Subset
    <2> QED BY <2>2, FS_CardinalityType
  <1>2. Cardinality(Marking(k)) <= Cardinality(Marking(k)')
    <2>1. Marking(k) \in SUBSET (Marking(k)')
          OBVIOUS
    <2> QED BY <1>1, <2>1, FS_Subset
  <1>3. Cardinality(Holding(k)') <= Cardinality(Holding(k))
    <2>1. Holding(k)' \in SUBSET Holding(k)
          OBVIOUS
    <2> QED BY <2>1, HandsCounted, FS_Subset
  <1>4. CountInv(k)' =
         (/\ delivery'[k] = Absent => sent'[k] = 0
          /\ delivery'[k] # Absent /\ delivery'[k].status = "PENDING"
               => sent'[k] <= Cardinality(Marking(k)') + resends'
          /\ delivery'[k] # Absent /\ delivery'[k].status = "DELIVERED"
               => sent'[k] > 0 /\ sent'[k] + Cardinality(Holding(k)') <= Cardinality(Senders) + resends')
        BY DEF CountInv
  <1> QED BY <1>1, <1>2, <1>3, <1>4, HandsCounted DEF CountInv

\* A step of one host that changes no row and sends nothing.
LEMMA HandKept ==
  ASSUME NotifyInv, NEW h \in Senders, NEW d \in Drains, DrainTo(h, d),
         UNCHANGED <<attention, delivery, sent, rows>>, resends' \in Nat, resends' >= resends,
         d.step \notin {"mark"},
         d.step = "send" => \A n \in d.list : n \in Present /\
             (delivery[n].status = "DELIVERED" => InHand(h, n) /\ ~Marks(h, n)),
         \A n \in Notes : Marks(h, n) => resends' = resends + 1
  PROVE  NotifyInv'
  <1>1. Present' = Present /\ \A m \in Present : delivery'[m].created = delivery[m].created
        BY DEF Present
  <1>2. d.step \in {"send", "mark"} => d.list \subseteq Present
        OBVIOUS
  <1>3. /\ NotifyShape /\ HandsInv
        BY DEF NotifyInv
  <1>4. draining' \in [Senders -> Drains] /\ HandsInv'
        BY <1>1, <1>2, <1>3, HandsKeep DEF DrainTo, NotifyShape
  <1>5. NotifyShape'
        BY <1>1, <1>3, <1>4 DEF NotifyShape, Present
  <1>6. ASSUME NEW k \in Notes PROVE CountInv(k)'
    <2>1. /\ Marking(k)' \subseteq Senders /\ Holding(k)' \subseteq Senders
          /\ \A x \in Senders \ {h} : (x \in Marking(k)' <=> x \in Marking(k)) /\ (x \in Holding(k)' <=> x \in Holding(k))
          /\ h \in Marking(k)' <=> (d.step = "mark" /\ k \in d.list /\ \A m \in d.list : ~Older(m, k))
          /\ h \in Holding(k)' <=> (d.step \in {"send", "mark"} /\ k \in d.list /\ h \notin Marking(k)')
          BY <1>1, <1>2, <1>3, HandsStep
    <2>2. Marking(k)' = Marking(k) \ {h}
          BY <2>1 DEF Marking
    <2>3. delivery[k] # Absent /\ delivery[k].status = "DELIVERED" => Holding(k)' \subseteq Holding(k)
          BY <2>1 DEF Holding
    <2>4. /\ IsFiniteSet(Marking(k)) /\ Cardinality(Marking(k)) \in Nat /\ Cardinality(Holding(k)) \in Nat
          BY HandsCounted
    <2>5. Cardinality(Marking(k)') >= Cardinality(Marking(k)) - (resends' - resends)
      <3>1. Cardinality(Marking(k) \ {h}) = IF h \in Marking(k) THEN Cardinality(Marking(k)) - 1 ELSE Cardinality(Marking(k))
            BY <2>4, FS_RemoveElement
      <3>2. h \in Marking(k) => resends' = resends + 1
            BY DEF Marking
      <3>3. resends \in Nat
            BY <1>3 DEF NotifyShape
      <3> QED BY <2>2, <2>4, <3>1, <3>2, <3>3
    <2>6. Cardinality(Marking(k)') \in Nat
      <3>1. IsFiniteSet(Marking(k) \ {h})
            BY <2>4, FS_RemoveElement
      <3> QED BY <2>2, <3>1, FS_CardinalityType
    <2>7. delivery[k] # Absent /\ delivery[k].status = "DELIVERED"
            => Cardinality(Holding(k)') \in Nat /\ Cardinality(Holding(k)') <= Cardinality(Holding(k))
      <3> SUFFICES ASSUME delivery[k] # Absent, delivery[k].status = "DELIVERED"
                   PROVE  Cardinality(Holding(k)') \in Nat /\ Cardinality(Holding(k)') <= Cardinality(Holding(k))
          OBVIOUS
      <3>1. Holding(k)' \in SUBSET Holding(k)
            BY <2>3
      <3>2. IsFiniteSet(Holding(k)') /\ Cardinality(Holding(k)') <= Cardinality(Holding(k))
            BY <3>1, HandsCounted, FS_Subset
      <3> QED BY <3>2, FS_CardinalityType
    <2>8. CountInv(k) /\ sent[k] \in Nat /\ resends \in Nat /\ Cardinality(Senders) \in Nat
          BY HandsCounted DEF NotifyInv, NotifyShape
    <2>9. CountInv(k)' =
           (/\ delivery[k] = Absent => sent[k] = 0
            /\ delivery[k] # Absent /\ delivery[k].status = "PENDING"
                 => sent[k] <= Cardinality(Marking(k)') + resends'
            /\ delivery[k] # Absent /\ delivery[k].status = "DELIVERED"
                 => sent[k] > 0 /\ sent[k] + Cardinality(Holding(k)') <= Cardinality(Senders) + resends')
          BY DEF CountInv
    <2> QED BY <2>4, <2>5, <2>6, <2>7, <2>8, <2>9 DEF CountInv
  <1> QED BY <1>4, <1>5, <1>6 DEF NotifyInv

LEMMA SendKeeps ==
  ASSUME NotifyInv, NEW h \in Senders, NEW n \in Notes, Send(h, n)
  PROVE  NotifyInv'
  <1> DEFINE d == [draining[h] EXCEPT !.step = "mark"]
  <1>1. /\ draining[h].step = "send" /\ NextNote(h, n) /\ DrainTo(h, d)
        /\ sent' = [sent EXCEPT ![n] = @ + 1]
        /\ UNCHANGED <<attention, delivery, resends, rows>>
        BY DEF Send, Accepts
  <1>2. NotifyShape /\ HandsInv /\ CountInv(n) /\ resends \in Nat /\ sent \in [Notes -> Nat]
        BY DEF NotifyInv, NotifyShape
  <1>3. /\ d \in Drains /\ d.step = "mark" /\ d.list = draining[h].list /\ n \in d.list
        /\ \A m \in d.list : ~Older(m, n)
        BY <1>1, <1>2 DEF NotifyShape, Drains, NextNote
  <1> HIDE DEF d
  <1>4. d.list \subseteq Present /\ Present' = Present
        BY <1>1, <1>2, <1>3 DEF HandsInv, InHand, Present, Drains
  <1>5. ASSUME NEW k \in d.list, \A m \in d.list : ~Older(m, k) PROVE k = n
        BY <1>2, <1>3, <1>4, <1>5, OneNext
  <1>6. /\ sent' \in [Notes -> Nat] /\ sent'[n] = sent[n] + 1 /\ sent'[n] > 0
        /\ \A k \in Notes \ {n} : sent'[k] = sent[k]
        BY <1>1, <1>2
  <1>7. HandsInv'
    <2>1. \A k \in Notes : sent[k] > 0 => sent'[k] > 0
          BY <1>6
    <2>2. \E k \in d.list : \A m \in d.list : ~Older(m, k)
          BY <1>3
    <2>3. \A k \in d.list : (\A m \in d.list : ~Older(m, k)) => sent'[k] > 0
          BY <1>5, <1>6
    <2> QED BY <1>1, <1>2, <1>3, <1>4, <2>1, <2>2, <2>3, HandsKeep
  <1>8. ASSUME NEW k \in Notes PROVE CountInv(k)'
    <2>1. /\ draining' \in [Senders -> Drains]
          /\ Marking(k)' \subseteq Senders /\ Holding(k)' \subseteq Senders
          /\ \A x \in Senders \ {h} : (x \in Marking(k)' <=> x \in Marking(k)) /\ (x \in Holding(k)' <=> x \in Holding(k))
          /\ h \in Marking(k)' <=> (d.step = "mark" /\ k \in d.list /\ \A m \in d.list : ~Older(m, k))
          /\ h \in Holding(k)' <=> (d.step \in {"send", "mark"} /\ k \in d.list /\ h \notin Marking(k)')
          BY <1>1, <1>2, <1>3, <1>4, HandsStep
    <2>2. h \notin Marking(k) /\ (h \in Holding(k) <=> k \in d.list)
          BY <1>1, <1>3 DEF Marking, Holding, Marks, InHand
    <2>3. CASE k # n
      <3>1. Marking(k)' = Marking(k) /\ Holding(k)' = Holding(k)
            BY <1>3, <1>5, <2>1, <2>2, <2>3 DEF Marking, Holding
      <3> QED BY <1>1, <1>2, <1>6, <2>3, <3>1, CountKept DEF NotifyInv
    <2>4. CASE k = n
      <3>1. Marking(n)' = Marking(n) \cup {h} /\ h \notin Marking(n)
            BY <1>3, <2>1, <2>2, <2>4 DEF Marking
      <3>2. Holding(n)' = Holding(n) \ {h} /\ h \in Holding(n)
            BY <1>3, <2>1, <2>2, <2>4 DEF Holding
      <3>3. /\ Cardinality(Marking(n)') = Cardinality(Marking(n)) + 1
            /\ Cardinality(Holding(n)') = Cardinality(Holding(n)) - 1
        <4>1. IsFiniteSet(Marking(n)) /\ IsFiniteSet(Holding(n))
              BY HandsCounted
        <4>2. Cardinality(Marking(n) \cup {h}) = Cardinality(Marking(n)) + 1
              BY <3>1, <4>1, FS_AddElement
        <4>3. Cardinality(Holding(n) \ {h}) = Cardinality(Holding(n)) - 1
              BY <3>2, <4>1, FS_RemoveElement
        <4> QED BY <3>1, <3>2, <4>2, <4>3
      <3>4. n \in Present
            BY <1>3, <1>4
      <3>5. CountInv(n)' =
             (/\ delivery[n] = Absent => sent'[n] = 0
              /\ delivery[n] # Absent /\ delivery[n].status = "PENDING"
                   => sent'[n] <= Cardinality(Marking(n)') + resends
              /\ delivery[n] # Absent /\ delivery[n].status = "DELIVERED"
                   => sent'[n] > 0 /\ sent'[n] + Cardinality(Holding(n)') <= Cardinality(Senders) + resends)
            BY <1>1 DEF CountInv
      <3>6. CountInv(n)'
            BY <1>2, <1>6, <3>3, <3>4, <3>5, HandsCounted DEF CountInv, Present
      <3> QED BY <2>4, <3>6
    <2> QED BY <2>3, <2>4
  <1>9. NotifyShape'
        BY <1>1, <1>2, <1>3, <1>4, <1>6 DEF NotifyShape, DrainTo
  <1> QED BY <1>7, <1>8, <1>9 DEF NotifyInv

LEMMA MarkKeeps ==
  ASSUME NotifyInv, NEW h \in Senders, NEW n \in Notes, MarkDelivered(h, n)
  PROVE  NotifyInv'
  <1> DEFINE d == [step |-> "send", list |-> draining[h].list \ {n}]
  <1>1. /\ draining[h].step = "mark" /\ NextNote(h, n) /\ DrainTo(h, d)
        /\ delivery' = [delivery EXCEPT ![n].status = "DELIVERED"]
        /\ UNCHANGED <<attention, sent, resends, rows>>
        BY DEF MarkDelivered
  <1>2. /\ NotifyShape /\ HandsInv /\ CountInv(n) /\ resends \in Nat /\ sent \in [Notes -> Nat]
        /\ draining[h] \in Drains
        BY DEF NotifyInv, NotifyShape
  <1>3. /\ d \in Drains /\ d.step = "send" /\ d.list = draining[h].list \ {n}
        BY <1>2 DEF Drains
  <1> HIDE DEF d
  <1>4. Marks(h, n) /\ InHand(h, n) /\ n \in draining[h].list /\ n \in Present /\ sent[n] > 0
        BY <1>1, <1>2 DEF Marks, InHand, NextNote, HandsInv
  <1>5. \A k \in draining[h].list : k \in Notes /\ k \in Present
        BY <1>1, <1>2 DEF HandsInv, InHand, Drains
  <1>6. /\ delivery' \in [Notes -> {Absent} \cup Deliveries]
        /\ delivery'[n] \in Deliveries /\ delivery'[n].created = delivery[n].created
        /\ delivery'[n].status = "DELIVERED"
        /\ \A k \in Notes \ {n} : delivery'[k] = delivery[k]
    <2>1. delivery[n] \in Deliveries
          BY <1>2, <1>4 DEF NotifyShape, Present
    <2> QED BY <1>1, <1>2, <2>1 DEF NotifyShape, Deliveries
  <1>7. Present' = Present /\ \A m \in Present : m \in Present' /\ delivery'[m].created = delivery[m].created
    <2>1. Absent \notin Deliveries
          BY NotifyAssumption DEF Deliveries
    <2> QED BY <1>4, <1>6, <2>1 DEF Present
  <1>8. HandsInv'
    <2>1. d.list \subseteq Present
          BY <1>3, <1>5
    <2>2. \A k \in Notes : sent[k] > 0 => sent'[k] > 0
          BY <1>1
    <2> QED BY <1>1, <1>2, <1>3, <1>7, <2>1, <2>2, HandsKeep
  <1>9. ASSUME NEW k \in draining[h].list, \A m \in draining[h].list : ~Older(m, k) PROVE k = n
    <2>1. draining[h].list \in SUBSET Present /\ \A m \in draining[h].list : ~Older(m, n)
          BY <1>1, <1>5 DEF NextNote
    <2> QED BY <1>2, <1>4, <1>9, <2>1, OneNext
  <1>a. ASSUME NEW k \in Notes PROVE CountInv(k)'
    <2>0. d.list \subseteq Present
          BY <1>3, <1>5
    <2>1. /\ Marking(k)' \subseteq Senders /\ Holding(k)' \subseteq Senders
          /\ \A x \in Senders \ {h} : (x \in Marking(k)' <=> x \in Marking(k)) /\ (x \in Holding(k)' <=> x \in Holding(k))
          /\ h \in Marking(k)' <=> (d.step = "mark" /\ k \in d.list /\ \A m \in d.list : ~Older(m, k))
          /\ h \in Holding(k)' <=> (d.step \in {"send", "mark"} /\ k \in d.list /\ h \notin Marking(k)')
          BY <1>1, <1>2, <1>3, <1>7, <2>0, HandsStep
    <2>2. /\ h \in Marking(k) <=> k = n
          /\ h \in Holding(k) <=> (k \in draining[h].list /\ k # n)
          BY <1>1, <1>4, <1>9 DEF Marking, Holding, Marks, InHand, NextNote
    <2>3. CASE k # n
      <3>1. Marking(k)' = Marking(k) /\ Holding(k)' = Holding(k)
            BY <1>3, <2>1, <2>2, <2>3 DEF Marking, Holding
      <3> QED BY <1>1, <1>2, <1>6, <2>3, <3>1, CountKept DEF NotifyInv
    <2>4. CASE k = n
      <3>1. Holding(n)' = Holding(n)
            BY <1>3, <2>1, <2>2, <2>4 DEF Holding
      <3>2. sent[n] + Cardinality(Holding(n)) <= Cardinality(Senders) + resends
        <4>1. delivery[n] # Absent /\ delivery[n].status \in {"PENDING", "DELIVERED"}
              BY <1>2, <1>4 DEF NotifyShape, Present, Deliveries
        <4> QED BY <1>2, <4>1, HandsCounted DEF CountInv
      <3>3. CountInv(n)' =
             (/\ delivery'[n] = Absent => sent[n] = 0
              /\ delivery'[n] # Absent /\ delivery'[n].status = "PENDING"
                   => sent[n] <= Cardinality(Marking(n)') + resends
              /\ delivery'[n] # Absent /\ delivery'[n].status = "DELIVERED"
                   => sent[n] > 0 /\ sent[n] + Cardinality(Holding(n)') <= Cardinality(Senders) + resends)
            BY <1>1 DEF CountInv
      <3>4. delivery'[n] # Absent
            BY <1>4, <1>7 DEF Present
      <3> QED BY <1>4, <1>6, <2>4, <3>1, <3>2, <3>3, <3>4
    <2> QED BY <2>3, <2>4
  <1>b. draining' \in [Senders -> Drains]
        BY <1>1, <1>2, <1>3 DEF NotifyShape, DrainTo
  <1>c. NotifyShape'
        BY <1>1, <1>2, <1>6, <1>7, <1>b DEF NotifyShape
  <1> QED BY <1>8, <1>a, <1>c DEF NotifyInv

LEMMA EnqueueKeeps ==
  ASSUME NotifyInv, NEW h \in Senders, NEW n \in Notes, EnqueueNote(h, n)
  PROVE  NotifyInv'
  <1> DEFINE d == [draining[h] EXCEPT !.list = @ \ {n}]
  <1>1. /\ draining[h].step = "enqueue" /\ DrainTo(h, d)
        /\ UNCHANGED <<attention, sent, resends>>
        /\ Unqueued(n) => /\ rows' = rows + 1
                          /\ delivery' = [delivery EXCEPT ![n] = [status |-> "PENDING", created |-> rows + 1]]
        /\ ~Unqueued(n) => UNCHANGED <<rows, delivery>>
        BY DEF EnqueueNote
  <1>2. /\ NotifyShape /\ HandsInv /\ CountInv(n) /\ resends \in Nat /\ sent \in [Notes -> Nat]
        /\ draining[h] \in Drains
        BY DEF NotifyInv, NotifyShape
  <1>3. /\ d \in Drains /\ d.step = "enqueue"
        BY <1>1, <1>2 DEF Drains
  <1> HIDE DEF d
  <1>4. CASE ~Unqueued(n)
    <2>1. \A k \in Notes : ~Marks(h, k)
          BY <1>1 DEF Marks
    <2> QED BY <1>1, <1>2, <1>3, <1>4, <2>1, HandKept
  <1>5. CASE Unqueued(n)
    <2> DEFINE new == [status |-> "PENDING", created |-> rows + 1]
    <2>1. rows \in Nat /\ IsFiniteSet(Present) /\ Absent \notin Deliveries
          BY <1>2, NotesFinite, FS_CardinalityType, NotifyAssumption DEF NotifyShape, Deliveries
    <2>2. new \in Deliveries /\ new.status = "PENDING" /\ new.created = rows + 1
          BY <2>1 DEF Deliveries
    <2>3. delivery[n] = Absent /\ rows' = rows + 1 /\ delivery' = [delivery EXCEPT ![n] = new]
          BY <1>1, <1>5 DEF Unqueued
    <2> HIDE DEF new
    <2>4. /\ delivery' \in [Notes -> {Absent} \cup Deliveries] /\ delivery'[n] = new
          /\ \A k \in Notes \ {n} : delivery'[k] = delivery[k]
          BY <1>2, <2>2, <2>3 DEF NotifyShape
    <2>5. Present' = Present \cup {n} /\ n \notin Present
          BY <2>1, <2>2, <2>3, <2>4 DEF Present
    <2>6. \A m \in Present : m \in Present' /\ delivery'[m].created = delivery[m].created
          BY <2>4, <2>5 DEF Present
    <2>7. Cardinality(Present') = rows'
      <3>1. Cardinality(Present \cup {n}) = Cardinality(Present) + 1
            BY <2>1, <2>5, FS_AddElement
      <3> QED BY <1>2, <2>3, <2>5, <3>1 DEF NotifyShape
    <2>8. draining' \in [Senders -> Drains]
          BY <1>1, <1>2, <1>3 DEF NotifyShape, DrainTo
    <2>9. NotifyShape'
      <3>1. \A m \in Present : delivery[m].created \in 1..rows /\ delivery'[m] = delivery[m]
            BY <1>2, <2>4, <2>5 DEF NotifyShape, Present
      <3>2. \A m \in Present' : delivery'[m].created \in 1..rows'
            BY <2>1, <2>2, <2>3, <2>4, <2>5, <3>1
      <3>3. \A m, k \in Present' : m # k => delivery'[m].created # delivery'[k].created
            BY <1>2, <2>1, <2>2, <2>4, <2>5, <3>1 DEF NotifyShape
      <3> QED BY <1>1, <1>2, <2>4, <2>7, <2>8, <3>2, <3>3 DEF NotifyShape
    <2>a. HandsInv'
      <3>1. \A k \in Notes : sent[k] > 0 => sent'[k] > 0
            BY <1>1
      <3> QED BY <1>1, <1>2, <1>3, <2>6, <3>1, HandsKeep
    <2>b. ASSUME NEW k \in Notes PROVE CountInv(k)'
      <3>1. CASE k = n
        <4>1. sent'[n] = 0 /\ delivery'[n] # Absent /\ delivery'[n].status = "PENDING"
              BY <1>1, <1>2, <2>1, <2>2, <2>3, <2>4 DEF CountInv
        <4>2. Cardinality(Marking(n)') \in Nat /\ resends' \in Nat
          <5>1. Marking(n)' \in SUBSET Senders
                BY DEF Marking
          <5>2. IsFiniteSet(Marking(n)')
                BY <5>1, NotifyAssumption, FS_Subset
          <5> QED BY <1>1, <1>2, <5>2, FS_CardinalityType
        <4>3. CountInv(n)' =
               (/\ delivery'[n] = Absent => sent'[n] = 0
                /\ delivery'[n] # Absent /\ delivery'[n].status = "PENDING"
                     => sent'[n] <= Cardinality(Marking(n)') + resends'
                /\ delivery'[n] # Absent /\ delivery'[n].status = "DELIVERED"
                     => sent'[n] > 0 /\ sent'[n] + Cardinality(Holding(n)') <= Cardinality(Senders) + resends')
              BY DEF CountInv
        <4> QED BY <3>1, <4>1, <4>2, <4>3
      <3>2. CASE k # n
        <4>1. /\ Marking(k)' \subseteq Senders /\ Holding(k)' \subseteq Senders
              /\ \A x \in Senders \ {h} : (x \in Marking(k)' <=> x \in Marking(k)) /\ (x \in Holding(k)' <=> x \in Holding(k))
              /\ h \notin Marking(k)' /\ h \notin Holding(k)'
              BY <1>1, <1>2, <1>3, <2>6, HandsStep
        <4>2. h \notin Marking(k) /\ h \notin Holding(k)
              BY <1>1 DEF Marking, Holding, Marks, InHand
        <4>3. Marking(k)' = Marking(k) /\ Holding(k)' = Holding(k)
              BY <4>1, <4>2 DEF Marking, Holding
        <4> QED BY <1>1, <1>2, <2>4, <3>2, <4>3, CountKept DEF NotifyInv
      <3> QED BY <3>1, <3>2
    <2> QED BY <2>9, <2>a, <2>b DEF NotifyInv
  <1> QED BY <1>4, <1>5

\* Attentions come and go without a row or a hand.
LEMMA AttentionKeeps ==
  ASSUME NotifyInv, attention' \in [Attentions -> {"none", "open", "closed"}],
         UNCHANGED <<delivery, sent, draining, resends, rows>>
  PROVE  NotifyInv'
  <1>1. NotifyShape'
        BY DEF NotifyInv, NotifyShape, Present
  <1>2. HandsInv'
        BY DEF NotifyInv, HandsInv, InHand, Marks, NextNote, Older, Present
  <1>3. \A n \in Notes : CountInv(n)'
        BY DEF NotifyInv, CountInv, Marking, Holding, InHand, Marks, NextNote, Older
  <1> QED BY <1>1, <1>2, <1>3 DEF NotifyInv

LEMMA NotifyStep == NotifyInv /\ [NotifyNext]_notifyVars => NotifyInv'
  <1> SUFFICES ASSUME NotifyInv, [NotifyNext]_notifyVars PROVE NotifyInv'
      OBVIOUS
  <1>0. /\ draining \in [Senders -> Drains] /\ resends \in Nat /\ HandsInv
        /\ attention \in [Attentions -> {"none", "open", "closed"}]
        /\ NotDraining \in Drains /\ NotDraining.step = "idle"
        BY DEF NotifyInv, NotifyShape, NotDraining, Drains
  <1>1. ASSUME NEW h \in Senders, ListOpen(h) PROVE NotifyInv'
    <2> DEFINE d == [step |-> "enqueue", list |-> {n \in Notes : attention[n[1]] = "open"}]
    <2>1. /\ d \in Drains /\ d.step = "enqueue" /\ DrainTo(h, d) /\ draining[h].step = "idle"
          /\ UNCHANGED <<attention, delivery, sent, resends, rows>>
          BY <1>1 DEF ListOpen, Drains
    <2> HIDE DEF d
    <2>2. \A n \in Notes : ~Marks(h, n)
          BY <2>1 DEF Marks
    <2> QED BY <1>0, <2>1, <2>2, HandKept
  <1>2. ASSUME NEW h \in Senders, ListPending(h) PROVE NotifyInv'
    <2> DEFINE d == [step |-> "send", list |-> FirstOf(Pending)]
    <2>1. /\ DrainTo(h, d) /\ draining[h].step = "enqueue"
          /\ UNCHANGED <<attention, delivery, sent, resends, rows>>
          BY <1>2 DEF ListPending
    <2>2. FirstOf(Pending) \subseteq Pending /\ Pending \subseteq Notes
          BY DEF FirstOf, Pending
    <2>3. d \in Drains /\ d.step = "send" /\ d.list \subseteq Pending
          BY <2>2 DEF Drains
    <2> HIDE DEF d
    <2>4. \A n \in d.list : n \in Present /\ delivery[n].status = "PENDING"
          BY <2>3 DEF Pending, Present
    <2>5. \A n \in Notes : ~Marks(h, n)
          BY <2>1 DEF Marks
    <2> QED BY <1>0, <2>1, <2>3, <2>4, <2>5, HandKept
  <1>3. ASSUME NEW h \in Senders, NEW n \in Notes, SendFails(h, n) PROVE NotifyInv'
    <2> DEFINE d == [draining[h] EXCEPT !.list = @ \ {n}]
    <2>1. /\ DrainTo(h, d) /\ draining[h].step = "send"
          /\ UNCHANGED <<attention, delivery, sent, resends, rows>>
          BY <1>3 DEF SendFails
    <2>2. d \in Drains /\ d.step = "send" /\ d.list \subseteq draining[h].list /\ d.list \subseteq Notes
          BY <1>0, <2>1 DEF Drains
    <2> HIDE DEF d
    <2>3. \A k \in d.list : InHand(h, k) /\ ~Marks(h, k) /\ k \in Present
          BY <1>0, <2>1, <2>2 DEF InHand, Marks, HandsInv
    <2>4. \A k \in Notes : ~Marks(h, k)
          BY <2>1 DEF Marks
    <2> QED BY <1>0, <2>1, <2>2, <2>3, <2>4, HandKept
  <1>4. ASSUME NEW h \in Senders, DrainEnds(h) PROVE NotifyInv'
    <2>1. /\ DrainTo(h, NotDraining) /\ draining[h].step = "send"
          /\ UNCHANGED <<attention, delivery, sent, resends, rows>>
          BY <1>4 DEF DrainEnds
    <2>2. \A n \in Notes : ~Marks(h, n)
          BY <2>1 DEF Marks
    <2> QED BY <1>0, <2>1, <2>2, HandKept
  <1>5. ASSUME NEW h \in Senders, DrainDies(h) PROVE NotifyInv'
    <2>1. /\ DrainTo(h, NotDraining) /\ resends' = resends + (IF draining[h].step = "mark" THEN 1 ELSE 0)
          /\ UNCHANGED <<attention, delivery, sent, rows>>
          BY <1>5 DEF DrainDies
    <2>2. resends' \in Nat /\ resends' >= resends
          BY <1>0, <2>1
    <2>3. \A n \in Notes : Marks(h, n) => resends' = resends + 1
          BY <2>1 DEF Marks
    <2> QED BY <1>0, <2>1, <2>2, <2>3, HandKept
  <1>6. ASSUME NEW a \in Attentions, OpenAttention(a) \/ CloseAttention(a) PROVE NotifyInv'
    <2>1. /\ attention' \in [Attentions -> {"none", "open", "closed"}]
          /\ UNCHANGED <<delivery, sent, draining, resends, rows>>
          BY <1>0, <1>6 DEF OpenAttention, CloseAttention
    <2> QED BY <2>1, AttentionKeeps
  <1>7. CASE UNCHANGED notifyVars
    <2>1. UNCHANGED <<attention, delivery, sent, draining, resends, rows>>
          BY <1>7 DEF notifyVars
    <2> QED BY <1>0, <2>1, AttentionKeeps
  <1>8. CASE NotifyNext
        BY <1>1, <1>2, <1>3, <1>4, <1>5, <1>6, <1>8, EnqueueKeeps, SendKeeps, MarkKeeps
           DEF NotifyNext, DrainStep
  <1> QED BY <1>7, <1>8

LEMMA NotifyHolds == NotifySpec => []NotifyInv
  BY NotifyInitial, NotifyStep, PTL DEF NotifySpec

(* What is marked DELIVERED was sent, and a notification is sent at most     *)
(* once for each host and each death in between, for any hosts, transports   *)
(* and deaths.                                                               *)
THEOREM NotifySendsCounted == NotifySpec => []SendsCounted
  <1>1. NotifyInv => DeliveredIsSent
        BY DEF NotifyInv, CountInv, DeliveredIsSent
  <1>2. ASSUME NotifyInv, NEW n \in Notes PROVE sent[n] <= Cardinality(Senders) + resends
    <2>1. /\ CountInv(n) /\ sent[n] \in Nat /\ resends \in Nat
          /\ delivery[n] # Absent => delivery[n].status \in {"PENDING", "DELIVERED"}
          BY <1>2 DEF NotifyInv, NotifyShape, Deliveries
    <2> QED BY <2>1, HandsCounted DEF CountInv
  <1>3. NotifyInv => SendsCounted
        BY <1>1, <1>2 DEF SendsCounted, ResendsBounded
  <1> QED BY <1>3, NotifyHolds, PTL

-----------------------------------------------------------------------------
(* The composition. Each component moves as its own specification says, and  *)
(* stands still while another moves.                                         *)

LEMMA SchedulesMove == Spec => ScheduleSpec
  <1>1. Init => ScheduleInit
        BY DEF Init
  <1>2. [Next]_vars => [ScheduleNext]_scheduleVars
        BY DEF Next, Schedules, Notices, Runners, Graph, Watch, Results, vars
  <1> QED BY <1>1, <1>2, PTL DEF Spec, ScheduleSpec

LEMMA NoticesMove == Spec => NotifySpec
  <1>1. Init => NotifyInit
        BY DEF Init
  <1>2. [Next]_vars => [NotifyNext]_notifyVars
        BY DEF Next, Schedules, Notices, Runners, Graph, Watch, Results, vars
  <1> QED BY <1>1, <1>2, PTL DEF Spec, NotifySpec

LEMMA RunnersMove == Spec => RunnerSpec
  <1>1. Init => RunnerInit
        BY DEF Init
  <1>2. [Next]_vars => [RunnerNext]_runnerVars
        BY DEF Next, Schedules, Notices, Runners, Graph, Watch, Results, vars
  <1> QED BY <1>1, <1>2, PTL DEF Spec, RunnerSpec

LEMMA GraphMoves == Spec => GraphSpec
  <1>1. Init => GraphInit
        BY DEF Init
  <1>2. [Next]_vars => [GraphNext]_graphVars
        BY DEF Next, Schedules, Notices, Runners, Graph, Watch, Results, vars
  <1> QED BY <1>1, <1>2, PTL DEF Spec, GraphSpec

LEMMA WatchMoves == Spec => WatchSpec
  <1>1. Init => WatchInit
        BY DEF Init
  <1>2. [Next]_vars => [WatchNext]_watchVars
        BY DEF Next, Schedules, Notices, Runners, Graph, Watch, Results, vars
  <1> QED BY <1>1, <1>2, PTL DEF Spec, WatchSpec

LEMMA ResultsMove == Spec => ResultSpec
  <1>1. Init => ResultInit
        BY DEF Init
  <1>2. [Next]_vars => [ResultNext]_resultVars
        BY DEF Next, Schedules, Notices, Runners, Graph, Watch, Results, vars
  <1> QED BY <1>1, <1>2, PTL DEF Spec, ResultSpec

LEMMA GraphTyped == GraphInv => GraphTypeOK
  <1> SUFFICES ASSUME GraphInv PROVE GraphTypeOK
      OBVIOUS
  <1>1. visit.stack \in Seq(submitted.ids) /\ visit.visited \subseteq submitted.ids
    <2>1. CASE verdict = "visiting"
          BY <2>1 DEF GraphInv, VisitInv, VisitShape, Visits
    <2>2. CASE verdict # "visiting"
      <3>1. visit = NoVisit
            BY <2>2 DEF GraphInv, GraphShape
      <3> QED BY <3>1, NoVisitIs, EmptySeq
    <2> QED BY <2>1, <2>2
  <1>2. ASSUME NEW n \in Nodes, node[n] # NoRow
        PROVE  /\ node[n].status \in {"PENDING", "COMPLETED"}
               /\ node[n].depends_on \subseteq Nodes \ {n}
               /\ (node[n].status = "COMPLETED") <=> (node[n].result # "none")
        BY <1>2 DEF GraphInv, GraphShape, Rows, RowInv
  <1>3. \A a \in GraphActors : acting[a].step \in {"idle", "run", "upsert"}
        BY DEF GraphInv, GraphShape, Runs
  <1> QED BY <1>1, <1>2, <1>3 DEF GraphTypeOK, GraphInv, GraphShape

LEMMA NotifyTyped == NotifyInv => NotifyTypeOK
  <1> SUFFICES ASSUME NotifyInv PROVE NotifyTypeOK
      OBVIOUS
  <1>0. NotifyShape
        BY DEF NotifyInv
  <1>1. Cardinality(Notes) \in Nat /\ rows \in Nat /\ rows <= Cardinality(Notes)
        BY <1>0, NotesFinite, FS_CardinalityType DEF NotifyShape
  <1>2. ASSUME NEW n \in Notes, delivery[n] # Absent
        PROVE  delivery[n] \in [status : {"PENDING", "DELIVERED"}, created : 1..Cardinality(Notes)]
    <2>1. n \in Present
          BY <1>2 DEF Present
    <2>2. delivery[n] \in Deliveries /\ delivery[n].created \in 1..rows
          BY <1>0, <1>2, <2>1 DEF NotifyShape
    <2>3. delivery[n].created \in 1..Cardinality(Notes)
          BY <1>1, <2>2
    <2> QED BY <2>2, <2>3 DEF Deliveries
  <1>3. ASSUME NEW m \in Notes, NEW n \in Notes, m # n, delivery[m] # Absent, delivery[n] # Absent
        PROVE  delivery[m].created # delivery[n].created
        BY <1>0, <1>3 DEF NotifyShape, Present
  <1>4. \A h \in Senders : draining[h].step \in {"idle", "enqueue", "send", "mark"}
                           /\ draining[h].list \subseteq Notes
        BY <1>0 DEF NotifyShape, Drains
  <1> QED BY <1>0, <1>2, <1>3, <1>4 DEF NotifyTypeOK, NotifyShape

(* The rows, files and calls of every component have their types.             *)
THEOREM PrimitivesTypeCorrect == Spec => []TypeOK
  <1>1. ScheduleInv => ScheduleTypeOK
        BY DEF ScheduleInv
  <1>2. WatchInv => WatchTypeOK
        BY DEF WatchInv
  <1>3. ResultInv => ResultTypeOK
        BY DEF ResultInv
  <1>4. /\ ScheduleTypeOK /\ NotifyTypeOK /\ RunnerTypeOK
        /\ GraphTypeOK /\ WatchTypeOK /\ ResultTypeOK
        => TypeOK
        BY DEF TypeOK
  <1> QED BY <1>1, <1>2, <1>3, <1>4, GraphTyped, NotifyTyped, RunnerTypeCorrect,
             ScheduleHolds, NotifyHolds, GraphHolds, WatchHolds, ResultHolds,
             SchedulesMove, NoticesMove, RunnersMove, GraphMoves, WatchMoves, ResultsMove, PTL

(* All that is proved of the components holds of them together: schedules,   *)
(* notices, remote jobs, plans, event streams and result files.              *)
THEOREM PrimitivesKept ==
  Spec => /\ [](OccurrencesKept /\ SendsCounted /\ ResultFenced /\ PlansRunToTheEnd
                  /\ BarrierHeld /\ StreamFaithful /\ AnswersTrue)
          /\ LeaseRespected
  BY ScheduleOccurrencesKept, NotifySendsCounted, ResultsFenced, LeasesRespected,
     GraphPlansRunToTheEnd, GraphBarrierHeld, WatchStreamFaithful, ResultAnswersTrue,
     SchedulesMove, NoticesMove, RunnersMove, GraphMoves, WatchMoves, ResultsMove, PTL
=============================================================================
