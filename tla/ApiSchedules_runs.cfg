SPECIFICATION FairSpec
CONSTANTS
  Schedules = {s1, s2}
  Tasks = {t1, t2, t3}
  Plans <- MCPlans
  CronTypes = {"Inner", "Outbox"}
  MaxTime = 3
  MaxEdits = 2
  MaxFaults = 1
INVARIANTS
  TypeOK
  OncePerDay
  CountKept
  EditSticks
  QueuedIsWatched
PROPERTIES
  DueIsRun
CHECK_DEADLOCK FALSE
