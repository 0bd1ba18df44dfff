SPECIFICATION FairSpec
CONSTANTS
  Schedules = {s1}
  Tasks = {t1, t2}
  FixedGap = 1
  Plans <- MCPlans
  MaxTime = 2
  MaxCrashes = 1
  MaxPosts = 1
  MaxEdits = 2
INVARIANTS
  TypeOK
  StoppedNotCompleted
  RunningIsLive
  TablesAgree
  EndIsHeard
PROPERTIES
  PlanKept
  DueIsSent
CHECK_DEADLOCK FALSE
