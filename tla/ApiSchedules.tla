---------------------------- MODULE ApiSchedules ----------------------------
(***************************************************************************)
(* The schedules of the HTTP API of the gateway (eiva-gateway/src/api.rs): *)
(* requests that save and delete them, the runner that looks for due ones  *)
(* every 30 seconds, and the tasks it hands to the gateway or to another   *)
(* scheduler.  Requests run on threads of their own, so they may come      *)
(* between any two awaits of the runner, which works on the rows it read   *)
(* at the start of its tick and writes them back whole.                    *)
(*                                                                         *)
(* Time is counted in half days: a fixed schedule has its time in the      *)
(* first or the second half of a day.                                      *)
(***************************************************************************)
EXTENDS Integers, FiniteSets

CONSTANTS Schedules, Tasks,
          Plans,      \* the payloads that requests send
          CronTypes,  \* the scheduler types a service may be configured with
          MaxTime,    \* bound on the half days that pass
          MaxEdits,   \* bound on requests
          MaxFaults   \* bound on failed writes, lost connections and crashes

\* A plan: kind "fixed" (at half day half of every day in days), "once" (at
\* sendAt) or "repeat" (from sendAt on, repeat times, interval apart).
ASSUME PlansAssumption ==
  Plans \subseteq [kind : {"fixed", "once", "repeat"}, enabled : BOOLEAN, half : {0, 1},
                   days : SUBSET Nat, sendAt : Nat, interval : Nat \ {0},
                   repeat : Nat \ {0}]

ASSUME BoundsAssumption == MaxTime \in Nat /\ MaxEdits \in Nat /\ MaxFaults \in Nat

VARIABLES
  now,      \* half days passed
  cronType, \* CRON_TYPE, read at the start
  table,    \* [Schedules -> row], the table schedules
  pc,       \* where run_schedule_tick is: "sleep", "rows", "marking", "marked", "sent"
  todo,     \* schedules whose rows the tick has still to look at
  copy,     \* [Schedules -> row] as the tick read them
  cur,      \* <<schedule, task>> the tick is at
  task,     \* [Tasks -> record], the table tasks and what the record stands for
  watchers, \* tasks with a client in client_sessions and a thread that reads it
  asked,    \* [Schedules -> row] as the last acknowledged request left it
  crossed,  \* schedules whose last request came while the tick held their row
  forsaken, \* tasks whose end nobody will record
  edits, faults

runner == <<pc, todo, copy, cur>>
ghosts == <<asked, crossed>>
vars == <<now, cronType, table, runner, task, watchers, ghosts, forsaken, edits, faults>>

Never == -1
NoPlan == [kind |-> "none", enabled |-> FALSE, half |-> 0, days |-> {},
           sendAt |-> 0, interval |-> 1, repeat |-> 1]

\* The row a request saves: the payload without the fields of earlier runs.
\* revision counts the requests and only tells their rows apart.
Saved(p, revision) ==
  [plan |-> p, enabled |-> p.enabled, completed |-> FALSE, lastRunDate |-> Never,
   lastRunAt |-> Never, completedRuns |-> 0, revision |-> revision]
NoRow == Saved(NoPlan, 0)
NoTaskRecord == [status |-> "absent", of |-> NoRow]
Nobody == <<>>

Day(t) == t \div 2
Half(t) == t % 2

Init == /\ now = 0
        /\ cronType \in CronTypes
        /\ table = [s \in Schedules |-> NoRow]
        /\ pc = "sleep" /\ todo = {} /\ cur = Nobody
        /\ copy = table
        /\ task = [t \in Tasks |-> NoTaskRecord]
        /\ watchers = {} /\ forsaken = {}
        /\ asked = table /\ crossed = {}
        /\ edits = 0 /\ faults = 0

Pass == /\ now < MaxTime
        /\ now' = now + 1
        /\ UNCHANGED <<cronType, table, runner, task, watchers, ghosts, forsaken, edits, faults>>
-----------------------------------------------------------------------------
(* Requests.                                                               *)

\* The tick holds a copy of the row that it may still write back.
Held(s) == (pc # "sleep" /\ s \in todo) \/ (pc = "marking" /\ cur[1] = s)

Requested(s, row) ==
  /\ edits < MaxEdits
  /\ edits' = edits + 1
  /\ table' = [table EXCEPT ![s] = row]
  /\ asked' = [asked EXCEPT ![s] = row]
  /\ crossed' = IF Held(s) THEN crossed \cup {s} ELSE crossed \ {s}
  /\ UNCHANGED <<now, cronType, runner, task, watchers, forsaken, faults>>

\* A payload posted to /api/schedules, or read out of the text of a task.
CreateSchedule(s, p) == asked[s] = NoRow /\ Requested(s, Saved(p, edits + 1))

\* The row is replaced whole, and made anew if it is no longer there.
UpdateSchedule(s, p) == asked[s] # NoRow /\ Requested(s, Saved(p, edits + 1))

DeleteSchedule(s) ==
  /\ asked[s] # NoRow
  /\ Requested(s, Saved(NoPlan, edits + 1))
-----------------------------------------------------------------------------
(* run_schedule_tick.                                                      *)

\* Mutant: rows read by an earlier tick are kept.
ReadRowsOnce ==
  /\ pc = "sleep"
  /\ pc' = "rows"
  /\ copy' = [s \in Schedules |-> IF copy[s] = NoRow THEN table[s] ELSE copy[s]]
  /\ todo' = {s \in Schedules : table[s].plan # NoPlan}
  /\ UNCHANGED <<now, cronType, table, cur, task, watchers, ghosts, forsaken, edits, faults>>

ReadRows ==
  /\ pc = "sleep"
  /\ pc' = "rows"
  /\ copy' = table
  /\ todo' = {s \in Schedules : table[s].plan # NoPlan}
  /\ UNCHANGED <<now, cronType, table, cur, task, watchers, ghosts, forsaken, edits, faults>>

\* schedule_is_due.
FixedDue(row, t) == /\ row.plan.half <= Half(t)
                    /\ row.lastRunDate # Day(t)
                    /\ Day(t) \in row.plan.days
RepeatDue(row, t) == /\ row.completedRuns < row.plan.repeat
                     /\ \/ row.completedRuns = 0
                        \/ row.lastRunAt = Never
                        \/ t - row.lastRunAt >= row.plan.interval
\* Mutant: the time of a plan has to be over.
DueStrictly(row, t) ==
  /\ row.enabled
  /\ \/ row.plan.kind = "fixed" /\ FixedDue(row, t)
     \/ row.plan.kind = "once" /\ row.plan.sendAt < t /\ ~row.completed
     \/ row.plan.kind = "repeat" /\ row.plan.sendAt < t /\ RepeatDue(row, t)

Due(row, t) ==
  /\ row.enabled
  /\ \/ row.plan.kind = "fixed" /\ FixedDue(row, t)
     \/ row.plan.kind = "once" /\ row.plan.sendAt <= t /\ ~row.completed
     \/ row.plan.kind = "repeat" /\ row.plan.sendAt <= t /\ RepeatDue(row, t)

\* mark_schedule_ran, up to the write.
RunsAfter(row) == row.completedRuns + (IF row.plan.kind = "repeat" THEN 1 ELSE 0)
LastRun(row) == \/ row.plan.kind = "once"
                \/ row.plan.kind = "repeat" /\ RunsAfter(row) >= row.plan.repeat

\* Mutants: a run leaves its date or its number unrecorded.
RanDateless(row, t) ==
  [row EXCEPT !.lastRunAt = t, !.completedRuns = RunsAfter(row),
              !.enabled = @ /\ ~LastRun(row), !.completed = @ \/ LastRun(row)]
RanUncounted(row, t) == [row EXCEPT !.lastRunAt = t, !.lastRunDate = Day(t)]

Ran(row, t) ==
  [plan |-> row.plan, revision |-> row.revision, lastRunAt |-> t, lastRunDate |-> Day(t),
   completedRuns |-> RunsAfter(row), enabled |-> row.enabled /\ ~LastRun(row),
   completed |-> row.completed \/ LastRun(row)]

TakeDue(s) ==
  /\ pc = "rows" /\ s \in todo
  /\ Due(copy[s], now)
  /\ pc' = "marking"
  /\ todo' = todo \ {s}
  /\ copy' = [copy EXCEPT ![s] = Ran(@, now)]
  /\ cur' = <<s>>
  /\ UNCHANGED <<now, cronType, table, task, watchers, ghosts, forsaken, edits, faults>>

\* Mutant: the first row that is not due ends the tick.
PassOverAll(s) ==
  /\ pc = "rows" /\ s \in todo
  /\ ~Due(copy[s], now)
  /\ pc' = "sleep"
  /\ todo' = todo \ {s}
  /\ UNCHANGED <<now, cronType, table, copy, cur, task, watchers, ghosts, forsaken, edits, faults>>

PassOver(s) ==
  /\ pc = "rows" /\ s \in todo
  /\ ~Due(copy[s], now)
  /\ todo' = todo \ {s}
  /\ UNCHANGED <<now, cronType, table, pc, copy, cur, task, watchers, ghosts, forsaken, edits, faults>>

EndTick ==
  /\ pc = "rows" /\ todo = {}
  /\ pc' = "sleep"
  /\ UNCHANGED <<now, cronType, table, todo, copy, cur, task, watchers, ghosts, forsaken, edits, faults>>

SaveMark ==
  /\ pc = "marking"
  /\ table' = [table EXCEPT ![cur[1]] = copy[cur[1]]]
  /\ pc' = "marked"
  /\ UNCHANGED <<now, cronType, todo, copy, cur, task, watchers, ghosts, forsaken, edits, faults>>

\* The write fails: the schedule is not run, and is due again in the next tick.
MarkFails ==
  /\ pc = "marking"
  /\ faults < MaxFaults /\ faults' = faults + 1
  /\ pc' = "rows" /\ cur' = Nobody
  /\ UNCHANGED <<now, cronType, table, todo, copy, task, watchers, ghosts, forsaken, edits>>

\* save_task_record: an error of the write is ignored.
Recorded(t, status) ==
  \/ /\ task' = [task EXCEPT ![t] = [status |-> status, of |-> task[t].of]]
     /\ UNCHANGED <<forsaken, faults>>
  \/ /\ faults < MaxFaults /\ faults' = faults + 1
     /\ forsaken' = forsaken \cup {t}
     /\ UNCHANGED task

Fresh == {t \in Tasks : task[t] = NoTaskRecord}

\* dispatch_schedule_task: a task with a new id (any: ids are not compared),
\* recorded as queued.
QueueTask ==
  LET t == CHOOSE u \in Tasks : u \in Fresh
      RecordedAs(status) ==
        task' = [task EXCEPT ![t] = [status |-> status, of |-> copy[cur[1]]]]
  IN /\ pc = "marked" /\ Fresh # {}
     /\ \/ /\ RecordedAs("queued")
           /\ UNCHANGED <<forsaken, faults>>
        \/ /\ RecordedAs("absent")
           /\ faults < MaxFaults /\ faults' = faults + 1
           /\ forsaken' = forsaken \cup {t}
     /\ pc' = "sent" /\ cur' = <<cur[1], t>>
     /\ UNCHANGED <<now, cronType, table, todo, copy, watchers, ghosts, edits>>

\* dispatch_prompt_task: the gateway takes the chat, and a thread watches it.
Accepted ==
  /\ pc = "sent" /\ cronType = "Inner"
  /\ watchers' = watchers \cup {cur[2]}
  /\ pc' = "rows" /\ cur' = Nobody
  /\ UNCHANGED <<now, cronType, table, todo, copy, task, ghosts, forsaken, edits, faults>>

\* dispatch_external: delivered to the webhook or the outbox, which ends the task.
Delivered ==
  /\ pc = "sent" /\ cronType # "Inner"
  /\ Recorded(cur[2], "completed")
  /\ pc' = "rows" /\ cur' = Nobody
  /\ UNCHANGED <<now, cronType, table, todo, copy, watchers, ghosts, edits>>

\* Mutant: the failure is returned without a record.
UndeliveredUnrecorded ==
  /\ pc = "sent"
  /\ pc' = "rows" /\ cur' = Nobody
  /\ UNCHANGED <<now, cronType, table, todo, copy, task, watchers, ghosts, forsaken, edits, faults>>

\* No connection, no chat, or no delivery.
Undelivered ==
  /\ pc = "sent"
  /\ Recorded(cur[2], "failed")
  /\ pc' = "rows" /\ cur' = Nobody
  /\ UNCHANGED <<now, cronType, table, todo, copy, watchers, ghosts, edits>>

-----------------------------------------------------------------------------
(* The thread that reads the client of a task.                             *)

\* ResponseDone, or an error event.
Answered(t, status) ==
  /\ t \in watchers
  /\ Recorded(t, status)
  /\ watchers' = watchers \ {t}
  /\ UNCHANGED <<now, cronType, table, runner, ghosts, edits>>

\* The stream ends before either: nothing is recorded.
Closed(t) ==
  /\ t \in watchers
  /\ faults < MaxFaults /\ faults' = faults + 1
  /\ watchers' = watchers \ {t}
  /\ forsaken' = forsaken \cup {t}
  /\ UNCHANGED <<now, cronType, table, runner, task, ghosts, edits>>

\* The process dies and starts again, perhaps with another scheduler type.
Crash ==
  /\ faults < MaxFaults /\ faults' = faults + 1
  /\ cronType' \in CronTypes
  /\ pc' = "sleep" /\ todo' = {} /\ cur' = Nobody
  /\ copy' = [s \in Schedules |-> NoRow]
  /\ watchers' = {}
  /\ forsaken' = forsaken \cup {t \in Tasks : task[t].status = "queued"}
  /\ crossed' = IF pc = "sleep" THEN crossed
                ELSE {s \in crossed : table[s].revision # asked[s].revision}
  /\ UNCHANGED <<now, table, task, asked, edits>>
-----------------------------------------------------------------------------
Request == \E s \in Schedules : \/ \E p \in Plans : CreateSchedule(s, p) \/ UpdateSchedule(s, p)
                                \/ DeleteSchedule(s)

RunnerStep == \/ ReadRows
              \/ \E s \in Schedules : TakeDue(s) \/ PassOver(s)
              \/ SaveMark
              \/ QueueTask
              \/ EndTick

Reply == \/ Accepted \/ Delivered \/ Undelivered
         \/ \E t \in Tasks : Answered(t, "completed") \/ Answered(t, "failed")

Fault == MarkFails \/ Crash \/ \E t \in Tasks : Closed(t)

Next == Pass \/ Request \/ RunnerStep \/ Reply \/ Fault

Spec == Init /\ [][Next]_vars

\* The timer and the database go on; nobody promises that a dispatch returns:
\* neither the request to a webhook nor the connection has a timeout.
FairSpec == Spec /\ WF_vars(RunnerStep)
-----------------------------------------------------------------------------
Row == [plan : Plans \cup {NoPlan}, enabled : BOOLEAN, completed : BOOLEAN,
        lastRunDate : Int, lastRunAt : Int, completedRuns : Nat, revision : Nat]

\* The types, and that the tick is over only when every row was looked at.
TypeOK ==
  /\ now \in 0 .. MaxTime /\ cronType \in CronTypes
  /\ table \in [Schedules -> Row] /\ copy \in [Schedules -> Row]
  /\ asked \in [Schedules -> Row]
  /\ pc \in {"sleep", "rows", "marking", "marked", "sent"}
  /\ pc = "sleep" => todo = {}
  /\ todo \subseteq Schedules /\ crossed \subseteq Schedules
  /\ cur = IF pc \in {"sleep", "rows"} THEN Nobody
           ELSE IF pc = "sent" THEN <<cur[1], cur[2]>> ELSE <<cur[1]>>
  /\ pc \in {"marking", "marked", "sent"} => cur[1] \in Schedules
  /\ pc = "sent" => cur[2] \in Tasks
  /\ task \in [Tasks -> [status : {"absent", "queued", "completed", "failed"}, of : Row]]
  /\ watchers \subseteq Tasks /\ forsaken \subseteq Tasks
  /\ edits \in 0 .. MaxEdits /\ faults \in 0 .. MaxFaults

Runs(revision) == {t \in Tasks : task[t].of.revision = revision /\ revision # 0}

\* A fixed schedule, as one request left it, runs at most once a day and not
\* before its time, across failed writes and crashes: the day is written before
\* the task is dispatched (schedule_is_due, mark_schedule_ran).
OncePerDay ==
  \A t, u \in Tasks :
    LET a == task[t].of
        b == task[u].of
    IN t # u /\ a.plan.kind = "fixed" /\ a.revision = b.revision =>
         /\ a.lastRunDate # b.lastRunDate
         /\ a.plan.half <= Half(a.lastRunAt)

\* A plan that is sent once, or repeat times, starts no more tasks than that,
\* those of a repeated plan an interval apart, whatever fails and however stale
\* the row is that a tick writes back.
CountKept ==
  \A t, u \in Tasks :
    LET a == task[t].of
        b == task[u].of
    IN a.revision # 0 /\ a.revision = b.revision =>
         /\ a.plan.kind = "once" => t = u
         /\ a.plan.kind = "repeat" =>
              /\ Cardinality(Runs(a.revision)) <= a.plan.repeat
              /\ t # u => \/ a.lastRunAt - b.lastRunAt >= a.plan.interval
                          \/ b.lastRunAt - a.lastRunAt >= a.plan.interval

\* The table holds what the last acknowledged request made of a schedule, a
\* deleted one stays deleted, unless the request came while a tick held the row:
\* run_schedule_tick writes the row back as it read it.
EditSticks == \A s \in Schedules \ crossed : table[s].revision = asked[s].revision

\* A task is recorded as queued only while somebody will still record its end;
\* not so those of a process that died, whose stream closed, or whose record
\* could not be written (dispatch_prompt_task, dispatch_schedule_task).
QueuedIsWatched ==
  \A t \in Tasks \ forsaken :
    (task[t].status = "queued") <=> (t \in watchers \/ (pc = "sent" /\ cur[2] = t))

\* The time of the schedule has come and the row does not say it was run.
Ripe(s) ==
  LET row == table[s]
  IN /\ row.enabled
     /\ \/ row.plan.kind = "once" /\ row.plan.sendAt <= now
        \/ row.plan.kind = "repeat" /\ row.plan.sendAt <= now /\ row.completedRuns = 0
        \/ /\ row.plan.kind = "fixed" /\ Day(now) \in row.plan.days
           /\ Half(now) >= row.plan.half /\ row.lastRunDate # Day(now)

\* A schedule whose time has come is run, is changed by a request, or its day
\* passes; only a dispatch that never returns keeps the runner from it (or the
\* model, when it is out of tasks).
DueIsRun ==
  \A s \in Schedules :
    (Ripe(s) ~> ~Ripe(s)) \/ <>[](pc = "sent") \/ <>(Fresh = {})
=============================================================================
