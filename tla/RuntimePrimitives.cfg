SPECIFICATION Spec
CONSTANTS
  often = often
  rarely = rarely
  first = first
  second = second
  other = other
  Hosts = {h1, h2}
  ScheduleIds = {often, rarely}
  Every <- MCEvery
  MaxTime = 3
  MaxUpserts = 1
  MaxTickFaults = 1
  Senders = {h1, h2}
  NAttentions = 2
  NTransports = 2
  Broken = {1}
  DrainLimit = 3
  MaxDrainFaults = 1
  Absent = Absent
  Workers = {first, second, other}
  RunnerOf <- MCRunnerOf
  RunnerJobs = {j1}
  RunnerTtl = 1
  MaxRunnerTime = 3
  MaxTokens = 4
  None = None
  Nodes = {1, 2, 3}
  GraphActors = {g1, g2}
  Plans <- MCPlans
  Replans <- MCReplans
  MaxCreates = 2
  NoNode = 0
  MaxEvents = 3
  MaxLogged = 6
  MaxBreaks = 2
  Writers = {w1, w2, w3}
  Contents = {c1, c2}
  Nothing = Nothing
INVARIANTS
  TypeOK OccurrencesKept SendsCounted ResultFenced
  PlansRunToTheEnd BarrierHeld StreamFaithful AnswersTrue
PROPERTIES
  NotificationArrives LeaseRespected
CHECK_DEADLOCK FALSE
