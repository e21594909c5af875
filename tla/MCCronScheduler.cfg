SPECIFICATION CronSpec
CONSTANTS
  Users = {u1, u2}
  Runs = {r1, r2}
  Callers = {u1, u2, r1, r2}
  MaxJobs = 2
  MaxFailures = 1
SYMMETRY Symmetry
INVARIANTS CronTypeOK CacheCoherentUnlessRaced OneRunAtATime ScheduleMatchesTable
PROPERTIES DeletedForever OneShotRunsOnce
CHECK_DEADLOCK FALSE
