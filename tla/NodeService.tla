----------------------------- MODULE NodeService ----------------------------
(***************************************************************************)
(* The node service: tasks that run the Codex CLI, schedules that start    *)
(* tasks, and subscribers that watch them (src/backend/node.js).  One      *)
(* thread runs everything, so an action is what happens between two waits: *)
(* a request handler, a tick of the schedule timer, or a piece of runTask  *)
(* and runCodexCli.  The database outlives the process; the controllers,   *)
(* the set of running schedules and the workers do not.                    *)
(***************************************************************************)
EXTENDS ScheduleStore, FiniteSets

CONSTANTS Schedules, Tasks,
          Plans,       \* the plans requests ask for
          MaxTime,     \* bound on the minutes that pass
          MaxCrashes,  \* bound on the deaths of the process
          MaxPosts,    \* bound on the tasks that requests post
          MaxEdits     \* bound on the changes of schedules by requests

NoSchedule == "nobody"
NoTask == "nothing"

ASSUME PlansAssumption == Plans \subseteq PlanFields
ASSUME BoundsAssumption == {MaxTime, MaxCrashes, MaxPosts, MaxEdits} \subseteq Nat
ASSUME NamesAssumption == NoSchedule \notin Schedules /\ NoTask \notin Tasks

VARIABLES
  now,         \* minutes passed
  schedule,    \* [Schedules -> Row], the table schedules
  status,      \* [Tasks -> status of the row in tasks, or "absent"]
  owner,       \* [Tasks -> the schedule that started it, or NoSchedule]
  run,         \* [Tasks -> status of the row in schedule_runs, or "none"]
  worker,      \* [Tasks -> where the runTask of the task is]
  controllers, \* taskControllers: tasks a stop request can reach
  aborted,     \* tasks whose stop was accepted: controller.abort() was called
  told,        \* tasks whose child got the signal: didAbort
  running,     \* runningSchedules
  watched,     \* the task the subscriber asked for, or NoTask
  hears,       \* what it has heard of the end of that task
  crashes,     \* deaths of the process so far
  edits        \* changes of schedules so far

tables == <<schedule, status, owner, run>>
process == <<worker, controllers, aborted, told, running>>
watch == <<watched, hears>>
vars == <<now, tables, process, watch, crashes, edits>>

Ended == {"completed", "failed", "interrupted"}
Statuses == {"absent", "queued", "running"} \cup Ended

\* "posted": the callback of setImmediate is due; "snapshot": runCodexCli waits
\* for the first file snapshot; "child": the CLI runs; "exited", "broken": it
\* has closed with code 0 or another and the last file poll is awaited;
\* "lost": the process died under the task.
Places == {"none", "posted", "snapshot", "child", "exited", "broken", "lost"}
Alive == Places \ {"none", "lost"}

Init == /\ now = 0
        /\ schedule = [s \in Schedules |-> Unused]
        /\ status = [t \in Tasks |-> "absent"]
        /\ owner = [t \in Tasks |-> NoSchedule]
        /\ run = [t \in Tasks |-> "none"]
        /\ worker = [t \in Tasks |-> "none"]
        /\ controllers = {} /\ aborted = {} /\ told = {} /\ running = {}
        /\ watched = NoTask /\ hears = "nothing"
        /\ crashes = 0 /\ edits = 0

Pass == /\ now < MaxTime
        /\ now' = now + 1
        /\ UNCHANGED <<tables, process, watch, crashes, edits>>
-----------------------------------------------------------------------------
(* Requests on tasks: createAndRunTask, stopTask, task_subscribe.          *)

Posted == {t \in Tasks : status[t] # "absent" /\ owner[t] = NoSchedule}

PostTask(t) ==
  /\ status[t] = "absent"
  /\ Cardinality(Posted) < MaxPosts
  /\ status' = [status EXCEPT ![t] = "queued"]
  /\ worker' = [worker EXCEPT ![t] = "posted"]
  /\ controllers' = controllers \cup {t}
  /\ UNCHANGED <<now, schedule, owner, run, aborted, told, running, watch, crashes, edits>>

\* The listener that tells the child is there only while the child runs.
StopTask(t) ==
  /\ status[t] \in {"queued", "running"}
  /\ t \in controllers \ aborted
  /\ aborted' = aborted \cup {t}
  /\ told' = IF worker[t] = "child" THEN told \cup {t} ELSE told
  /\ UNCHANGED <<now, tables, worker, controllers, running, watch, crashes, edits>>

\* Mutant: a subscriber only hears what happens from then on.
SubscribeOnly(t) ==
  /\ watched = NoTask
  /\ status[t] # "absent"
  /\ watched' = t
  /\ hears' = "nothing"
  /\ UNCHANGED <<now, tables, process, crashes, edits>>

\* A subscriber is told at once of an end that has come, save an interruption.
\* Only one is modelled: subscribers do not meet.
Subscribe(t) ==
  /\ watched = NoTask
  /\ status[t] # "absent"
  /\ watched' = t
  /\ hears' = IF status[t] \in {"completed", "failed"} THEN "end"
              ELSE IF status[t] = "interrupted" THEN "late" ELSE "nothing"
  /\ UNCHANGED <<now, tables, process, crashes, edits>>
-----------------------------------------------------------------------------
(* runTask and runCodexCli.                                                *)

\* Mutant: the run is left as it was started.
FinishTaskOnly(t, e) ==
  /\ status' = [status EXCEPT ![t] = e]
  /\ worker' = [worker EXCEPT ![t] = "none"]
  /\ hears' = IF watched = t THEN "end" ELSE hears
  /\ running' = running \ {owner[t]}
  /\ controllers' = controllers \ {t}
  /\ UNCHANGED <<now, schedule, owner, run, aborted, told, watched, crashes, edits>>

\* Mutant: a failed task leaves its schedule marked as running.
FinishKeepsMark(t, e) ==
  /\ status' = [status EXCEPT ![t] = e]
  /\ worker' = [worker EXCEPT ![t] = "none"]
  /\ hears' = IF watched = t THEN "end" ELSE hears
  /\ run' = [run EXCEPT ![t] = IF @ = "started" THEN e ELSE @]
  /\ running' = IF e = "failed" THEN running ELSE running \ {owner[t]}
  /\ controllers' = controllers \ {t}
  /\ UNCHANGED <<now, schedule, owner, aborted, told, watched, crashes, edits>>

\* runTask ends with status e: the task's row and the event of the end, then,
\* for a task of a schedule, the run's row and runningSchedules, and for one
\* of a request its controller.
Finish(t, e) ==
  /\ status' = [status EXCEPT ![t] = e]
  /\ worker' = [worker EXCEPT ![t] = "none"]
  /\ hears' = IF watched = t THEN "end" ELSE hears
  /\ run' = [run EXCEPT ![t] = IF @ = "started" THEN e ELSE @]
  /\ running' = running \ {owner[t]}
  /\ controllers' = controllers \ {t}
  /\ UNCHANGED <<now, schedule, owner, aborted, told, watched, crashes, edits>>

BeginTask(t) ==
  /\ worker[t] = "posted"
  /\ t \notin aborted
  /\ status' = [status EXCEPT ![t] = "running"]
  /\ worker' = [worker EXCEPT ![t] = "snapshot"]
  /\ UNCHANGED <<now, schedule, owner, run, controllers, aborted, told, running,
                 watch, crashes, edits>>

Spawn(t) ==
  /\ worker[t] = "snapshot"
  /\ t \notin aborted
  /\ worker' = [worker EXCEPT ![t] = "child"]
  /\ UNCHANGED <<now, tables, controllers, aborted, told, running, watch, crashes, edits>>

\* A stop that came before the child was there.
EndUnstarted(t) ==
  /\ worker[t] \in {"posted", "snapshot"}
  /\ t \in aborted
  /\ Finish(t, "interrupted")

\* The child closes, by itself or because of SIGTERM, with any code; the
\* listener goes with it.
ChildCloses(t) ==
  /\ worker[t] = "child"
  /\ \E place \in {"exited", "broken"} : worker' = [worker EXCEPT ![t] = place]
  /\ UNCHANGED <<now, tables, controllers, aborted, told, running, watch, crashes, edits>>

\* The event 'error' of the child: it could not be spawned.
ChildFails(t) ==
  /\ worker[t] = "child"
  /\ Finish(t, "failed")

\* Mutant: only what the listener noted counts.
OutcomeOfTold(t) ==
  IF t \in told THEN "interrupted"
  ELSE IF worker[t] = "exited" THEN "completed" ELSE "failed"

\* Mutant: a status the other readers of the table do not know.
OutcomeStopped(t) ==
  IF t \in told \/ t \in aborted THEN "stopped"
  ELSE IF worker[t] = "exited" THEN "completed" ELSE "failed"

\* After the last file poll: didAbort || signal.aborted, then the exit code.
Outcome(t) ==
  IF t \in told \/ t \in aborted THEN "interrupted"
  ELSE IF worker[t] = "exited" THEN "completed" ELSE "failed"

Report(t) ==
  /\ worker[t] \in {"exited", "broken"}
  /\ Finish(t, Outcome(t))
-----------------------------------------------------------------------------
(* Requests on schedules.                                                  *)

SetSchedule(s, row) ==
  /\ edits < MaxEdits
  /\ edits' = edits + 1
  /\ schedule' = [schedule EXCEPT ![s] = row]
  /\ UNCHANGED <<now, status, owner, process, watch, crashes>>

SendTimes == {NoTime} \cup 0 .. MaxTime

CreateSchedule(s) ==
  /\ schedule[s].row = "unused"
  /\ \E enabled \in BOOLEAN, plan \in Plans, sendAt \in SendTimes :
       /\ Activatable(enabled, plan, sendAt, now)
       /\ SetSchedule(s, Created(enabled, plan, sendAt, now))
  /\ UNCHANGED run

PatchSchedule(s) ==
  LET cur == schedule[s] IN
  /\ cur.row = "live"
  /\ \E changed \in SUBSET {"enabled", "sendAt", "plan"} :
     \E enabled \in IF "enabled" \in changed THEN BOOLEAN ELSE {cur.enabled},
        sendAt \in IF "sendAt" \in changed THEN SendTimes ELSE {cur.sendAt},
        plan \in IF "plan" \in changed THEN Plans ELSE {cur.plan} :
       /\ (("enabled" \in changed /\ enabled) \/ "sendAt" \in changed)
            => Activatable(enabled, plan, sendAt, now)
       /\ SetSchedule(s, Updated(cur, changed # {}, enabled, plan, sendAt, now))
  /\ UNCHANGED run

\* Deleting the row deletes its runs (ON DELETE CASCADE); its task goes on.
DeleteSchedule(s) ==
  /\ schedule[s].row = "live"
  /\ SetSchedule(s, Deleted)
  /\ run' = [t \in Tasks |-> IF owner[t] = s THEN "none" ELSE run[t]]
-----------------------------------------------------------------------------
(* The schedule runner.                                                    *)

\* Mutant: a tick does not ask whether the schedule is running.
DueWhileRunning == {s \in Schedules : DueAt(schedule[s], now)}

DueNow == {s \in Schedules : DueAt(schedule[s], now) /\ s \notin running}

Fresh == {t \in Tasks : status[t] = "absent"}

Injective(f) == \A x, y \in DOMAIN f : f[x] = f[y] => x = y

\* tick: every due schedule that is not running starts a task of its own, and
\* runs it up to its first wait; nothing else happens in between.
Tick ==
  /\ DueNow # {}
  /\ \E by \in [DueNow -> Fresh] :
       LET starts(t) == \E s \in DueNow : by[s] = t IN
       /\ Injective(by)
       /\ status' = [t \in Tasks |-> IF starts(t) THEN "running" ELSE status[t]]
       /\ worker' = [t \in Tasks |-> IF starts(t) THEN "snapshot" ELSE worker[t]]
       /\ run' = [t \in Tasks |-> IF starts(t) THEN "started" ELSE run[t]]
       /\ owner' = [t \in Tasks |-> IF starts(t) THEN CHOOSE s \in DueNow : by[s] = t
                                    ELSE owner[t]]
  /\ schedule' = [s \in Schedules |-> IF s \in DueNow THEN MarkedSent(schedule[s], now)
                                      ELSE schedule[s]]
  /\ running' = running \cup DueNow
  /\ UNCHANGED <<now, controllers, aborted, told, watch, crashes, edits>>
-----------------------------------------------------------------------------
(* The process dies and comes back.  Nothing looks at what it left behind. *)

Restart ==
  /\ crashes < MaxCrashes
  /\ crashes' = crashes + 1
  /\ controllers' = {} /\ running' = {}
  /\ watched' = NoTask /\ hears' = "nothing"
  /\ UNCHANGED <<now, aborted, told, edits>>

Lost(t) == IF worker[t] \in Alive THEN "lost" ELSE worker[t]

Crash == /\ Restart
         /\ worker' = [t \in Tasks |-> Lost(t)]
         /\ UNCHANGED tables

\* It dies in executeSchedule for the first schedule of a tick: the task is there,
\* with its run or without, and the schedule is not marked as sent.
CrashInTick(s, t) ==
  /\ s \in DueNow
  /\ status[t] = "absent"
  /\ Restart
  /\ status' = [status EXCEPT ![t] = "queued"]
  /\ owner' = [owner EXCEPT ![t] = s]
  /\ \E row \in {"none", "started"} : run' = [run EXCEPT ![t] = row]
  /\ worker' = [u \in Tasks |-> IF u = t THEN "lost" ELSE Lost(u)]
  /\ UNCHANGED schedule

\* It dies between the end of a task and the end of its run.
CrashInReport(t) ==
  /\ worker[t] \in {"exited", "broken"}
  /\ Restart
  /\ status' = [status EXCEPT ![t] = Outcome(t)]
  /\ worker' = [u \in Tasks |-> Lost(u)]
  /\ UNCHANGED <<schedule, owner, run>>
-----------------------------------------------------------------------------
TaskStep(t) == \/ BeginTask(t) \/ Spawn(t) \/ EndUnstarted(t)
               \/ ChildCloses(t) \/ ChildFails(t) \/ Report(t)

Next == \/ Pass \/ Tick \/ Crash
        \/ \E t \in Tasks : PostTask(t) \/ StopTask(t) \/ Subscribe(t) \/ TaskStep(t)
                            \/ CrashInReport(t)
        \/ \E s \in Schedules : \/ CreateSchedule(s) \/ PatchSchedule(s)
                                \/ DeleteSchedule(s)
                                \/ \E t \in Tasks : CrashInTick(s, t)

\* The event loop runs what is ready, the timer ticks, and the CLI ends at some
\* time: nothing in the code ends one that does not.
Fairness == WF_vars(Tick) /\ \A t \in Tasks : WF_vars(TaskStep(t))

Spec == Init /\ [][Next]_vars
FairSpec == Spec /\ Fairness
-----------------------------------------------------------------------------
TypeOK ==
  /\ now \in Nat /\ crashes \in Nat /\ edits \in Nat
  /\ schedule \in [Schedules -> Row]
  /\ status \in [Tasks -> Statuses]
  /\ owner \in [Tasks -> Schedules \cup {NoSchedule}]
  /\ run \in [Tasks -> {"none", "started"} \cup Ended]
  /\ worker \in [Tasks -> Places]
  /\ controllers \subseteq Tasks /\ aborted \subseteq Tasks /\ told \subseteq Tasks
  /\ running \subseteq Schedules
  /\ watched \in Tasks \cup {NoTask}
  /\ hears \in {"nothing", "end", "late"}

\* A stop that was accepted never ends in success, wherever between the post,
\* the snapshot, the child and the last file poll it comes (tasks.js stopTask;
\* codexRunner.js 'close').
StoppedNotCompleted == \A t \in aborted : status[t] # "completed"

\* A schedule whose task still runs is not started again when its next slot
\* comes, and a schedule is free again when no task of it runs: runningSchedules
\* is exactly the schedules with a live task (scheduleRunner.js tick).
RunningIsLive ==
  /\ running = {owner[t] : t \in {u \in Tasks : worker[u] \in Alive /\ owner[u] # NoSchedule}}
  /\ \A t, u \in Tasks : worker[t] \in Alive /\ worker[u] \in Alive /\ owner[t] = owner[u]
                           /\ owner[t] # NoSchedule => t = u

\* What the tables say of a task agrees with the process: an unfinished task has
\* a worker unless the process died under it, a request's task can be stopped as
\* long as it is unfinished, and a run says how its task ended (executeSchedule).
TablesAgree ==
  \A t \in Tasks :
    /\ status[t] \in {"queued", "running"} <=> worker[t] \in Alive
         \/ (worker[t] = "lost" /\ status[t] \notin Ended)
    /\ worker[t] \in Alive /\ owner[t] = NoSchedule <=> t \in controllers
    /\ run[t] \in Ended => run[t] = status[t]
    /\ run[t] = "started" => worker[t] # "none"

\* A subscriber of a task that ends hears the end while its connection lasts,
\* unless it came after an interruption (socketServer.js task_subscribe).
EndIsHeard ==
  watched # NoTask /\ hears = "nothing" => status[watched] \in {"queued", "running"}

\* A due schedule is sent or changed, once the task of its earlier firing has
\* ended: the in-memory mark of a running schedule never sticks.  The bound on
\* tasks excepted.
DueIsSent ==
  \A s \in Schedules :
    DueAt(schedule[s], now) ~> \/ ~DueAt(schedule[s], now)
                               \/ Cardinality(Fresh) < Cardinality(DueNow)

\* The plan promised to the owner of a schedule.
Plan == INSTANCE SchedulePlan WITH
  next <- [s \in Schedules |-> IF schedule[s].enabled THEN schedule[s].next ELSE NoTime],
  left <- [s \in Schedules |-> IF ~schedule[s].enabled THEN 0
                               ELSE IF IsFixed(schedule[s].plan) THEN -1
                               ELSE schedule[s].remaining],
  sent <- [s \in Schedules |-> {t \in Tasks : owner[t] = s}]

\* The service keeps every schedule's plan: between two changes by requests a
\* plan of n firings starts at most n tasks, each when its slot has come and no
\* two for one slot, save for a slot the process died in.
PlanKept == Plan!Spec
=============================================================================
