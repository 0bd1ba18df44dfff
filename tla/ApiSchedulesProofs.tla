-------------------------- MODULE ApiSchedulesProofs -------------------------
(***************************************************************************)
(* Proofs about the schedules of the HTTP API, for any schedules, tasks,   *)
(* plans and bounds.  A tick works on copies of the rows and writes them   *)
(* back whole, so the inductive invariant Inv speaks of every row that may *)
(* still be run: the one in the table, the copies the tick has not come    *)
(* to, and the one it is at.  TasksBehind says that a task's row is an     *)
(* earlier state of each of them that belongs to the same request, which   *)
(* is what makes the runs of a plan come one after the other (InOrder).    *)
(* From that follow OncePerDay and CountKept; Sticks, which relates the    *)
(* copies to the requests, gives EditSticks; Waited gives QueuedIsWatched. *)
(***************************************************************************)
EXTENDS ApiSchedules, FiniteSetTheorems, TLAPS

\* A day is a number, and has two halves.
LEMMA DayHalf ==
  ASSUME NEW t \in Nat
  PROVE  Day(t) \in Nat /\ Half(t) \in {0, 1}
BY DEF Day, Half

\* Days follow each other in time.
LEMMA DayGrows ==
  ASSUME NEW t \in Nat
  PROVE  Day(t) <= Day(t + 1)
<1>1. t = 2 * Day(t) + Half(t) /\ t + 1 = 2 * Day(t + 1) + Half(t + 1)
  BY DEF Day, Half
<1>2. Half(t) \in {0, 1} /\ Half(t + 1) \in {0, 1} /\ Day(t) \in Nat /\ Day(t + 1) \in Nat
  BY DayHalf
<1> HIDE DEF Day, Half
<1> QED
  BY <1>1, <1>2

\* What a request saves is a row.
LEMMA SavedRow ==
  ASSUME NEW p \in Plans \cup {NoPlan}, NEW r \in Nat
  PROVE  /\ Saved(p, r) \in Row
         /\ Saved(p, r).plan = p /\ Saved(p, r).revision = r
         /\ Saved(p, r).enabled = p.enabled /\ ~Saved(p, r).completed
         /\ Saved(p, r).completedRuns = 0
         /\ Saved(p, r).lastRunAt = Never /\ Saved(p, r).lastRunDate = Never
<1>1. p.enabled \in BOOLEAN
  <2>1. CASE p \in Plans
    BY <2>1, PlansAssumption
  <2>2. CASE p = NoPlan
    BY <2>2 DEF NoPlan
  <2> QED
    BY <2>1, <2>2
<1> QED
  BY <1>1 DEF Saved, Row, Never

\* What a run makes of a row.
LEMMA RanRow ==
  ASSUME NEW row \in Row, row.plan \in Plans, NEW t \in Nat
  PROVE  /\ Ran(row, t) \in Row
         /\ Ran(row, t).plan = row.plan /\ Ran(row, t).revision = row.revision
         /\ Ran(row, t).lastRunAt = t /\ Ran(row, t).lastRunDate = Day(t)
         /\ Ran(row, t).completedRuns = RunsAfter(row)
         /\ Ran(row, t).completed = (row.completed \/ LastRun(row))
<1>1. Day(t) \in Nat /\ RunsAfter(row) \in Nat /\ LastRun(row) \in BOOLEAN
  BY DayHalf DEF RunsAfter, LastRun, Row
<1>2. row.enabled \in BOOLEAN /\ row.completed \in BOOLEAN /\ row.plan \in Plans
      /\ row.revision \in Nat
  BY DEF Row
<1> QED
  BY <1>1, <1>2 DEF Ran, Row
-----------------------------------------------------------------------------
(* The types.                                                              *)

Kinds == {"fixed", "once", "repeat", "none"}

\* The rows' fields, for provers that need them one by one.
LEMMA RowFields ==
  ASSUME NEW row \in Row
  PROVE  /\ row.plan \in Plans \cup {NoPlan} /\ row.enabled \in BOOLEAN
         /\ row.completed \in BOOLEAN /\ row.lastRunDate \in Int /\ row.lastRunAt \in Int
         /\ row.completedRuns \in Nat /\ row.revision \in Nat
BY DEF Row

\* The row that is not there.
LEMMA NoRowIsRow ==
  /\ NoRow \in Row /\ NoRow.plan = NoPlan /\ NoRow.revision = 0 /\ ~NoRow.enabled
  /\ NoRow.completedRuns = 0 /\ NoRow.lastRunAt = Never /\ NoRow.lastRunDate = Never
BY SavedRow DEF NoRow, NoPlan

\* Only a row that a request saved and left on is due.
LEMMA DueIsPlanned ==
  ASSUME NEW row \in Row, NEW t \in Nat, Due(row, t)
  PROVE  row.plan \in Plans /\ row.enabled
<1>1. row.plan # NoPlan
  BY DEF Due, NoPlan
<1> QED
  BY <1>1 DEF Due, Row

\* The types hold at the start.
LEMMA TypesBegin == Init => TypeOK
<1> SUFFICES ASSUME Init PROVE TypeOK
  OBVIOUS
<1>1. NoTaskRecord \in [status : {"absent", "queued", "completed", "failed"}, of : Row]
  BY NoRowIsRow DEF NoTaskRecord
<1> QED
  BY <1>1, NoRowIsRow, BoundsAssumption DEF Init, TypeOK, Nobody

TaskRecord == [status : {"absent", "queued", "completed", "failed"}, of : Row]

\* Every step keeps the types.
LEMMA TypesStep ==
  ASSUME TypeOK, [Next]_vars
  PROVE  TypeOK'
<1> USE DEF TypeOK, Nobody
<1>0. now \in Nat /\ edits \in Nat /\ faults \in Nat /\ task \in [Tasks -> TaskRecord]
  BY BoundsAssumption DEF TaskRecord
<1>1. CASE Pass
  <2>1. now' \in 0 .. MaxTime
    BY <1>1, BoundsAssumption DEF Pass
  <2> QED
    BY <1>1, <2>1 DEF Pass, runner, ghosts
<1>2. ASSUME NEW s \in Schedules, NEW p \in Plans \cup {NoPlan}, Requested(s, Saved(p, edits + 1))
      PROVE  TypeOK'
  <2>0. edits + 1 \in Nat
    BY <1>0
  <2>1. Saved(p, edits + 1) \in Row
    BY <2>0, SavedRow, Zenon
  <2> HIDE DEF Nobody
  <2> QED
    BY <1>2, <2>1, <1>0, BoundsAssumption DEF Requested, runner
<1>3. CASE ReadRows
  BY <1>3 DEF ReadRows, ghosts
<1>4. ASSUME NEW s \in Schedules, TakeDue(s)
      PROVE  TypeOK'
  <2>1. Ran(copy[s], now) \in Row
    BY <1>4, <1>0, DueIsPlanned, RanRow DEF TakeDue
  <2> QED
    BY <1>4, <2>1 DEF TakeDue, ghosts
<1>5. ASSUME NEW s \in Schedules, PassOver(s)
      PROVE  TypeOK'
  BY <1>5 DEF PassOver, ghosts
<1>6. CASE EndTick
  BY <1>6 DEF EndTick, ghosts
<1>7. CASE SaveMark
  BY <1>7 DEF SaveMark, ghosts
<1>8. CASE MarkFails
  BY <1>8, <1>0, BoundsAssumption DEF MarkFails, ghosts
<1>9. CASE QueueTask
  <2> DEFINE t == CHOOSE u \in Tasks : u \in Fresh
  <2>1. t \in Tasks /\ cur[1] \in Schedules /\ copy[cur[1]] \in Row
    BY <1>9 DEF QueueTask, Fresh
  <2>2. /\ \/ task' = [task EXCEPT ![t] = [status |-> "queued", of |-> copy[cur[1]]]]
           \/ task' = [task EXCEPT ![t] = [status |-> "absent", of |-> copy[cur[1]]]]
        /\ \/ forsaken' = forsaken /\ faults' = faults
           \/ forsaken' = forsaken \cup {t} /\ faults < MaxFaults /\ faults' = faults + 1
        /\ pc' = "sent" /\ cur' = <<cur[1], t>> /\ pc = "marked"
        /\ UNCHANGED <<now, cronType, table, todo, copy, watchers, ghosts, edits>>
    BY <1>9 DEF QueueTask
  <2> HIDE DEF t
  <2>3. task' \in [Tasks -> TaskRecord]
    BY <2>1, <2>2, <1>0 DEF TaskRecord
  <2> QED
    BY <2>1, <2>2, <2>3, <1>0, BoundsAssumption DEF TaskRecord, ghosts
<1>10. ASSUME NEW t \in Tasks, NEW st \in {"completed", "failed"}, Recorded(t, st)
       PROVE  /\ task' \in [Tasks -> TaskRecord] /\ forsaken' \subseteq Tasks
              /\ faults' \in 0 .. MaxFaults
  BY <1>10, <1>0, BoundsAssumption DEF Recorded, TaskRecord
<1>11. CASE Accepted
  BY <1>11 DEF Accepted, ghosts
<1>12. CASE Delivered
  BY <1>12, <1>10 DEF Delivered, TaskRecord, ghosts
<1>13. CASE Undelivered
  BY <1>13, <1>10 DEF Undelivered, TaskRecord, ghosts
<1>14. ASSUME NEW t \in Tasks, Answered(t, "completed") \/ Answered(t, "failed")
       PROVE  TypeOK'
  BY <1>14, <1>10 DEF Answered, TaskRecord, runner, ghosts
<1>15. ASSUME NEW t \in Tasks, Closed(t)
       PROVE  TypeOK'
  BY <1>15, <1>0, BoundsAssumption DEF Closed, runner, ghosts
<1>16. CASE Crash
  BY <1>16, <1>0, NoRowIsRow, BoundsAssumption DEF Crash
<1>17. CASE UNCHANGED vars
  BY <1>17 DEF vars, runner, ghosts
<1> QED
  BY <1>1, <1>2, <1>3, <1>4, <1>5, <1>6, <1>7, <1>8, <1>9, <1>11, <1>12, <1>13, <1>14,
     <1>15, <1>16, <1>17
  DEF Next, Request, CreateSchedule, UpdateSchedule, DeleteSchedule, RunnerStep, Reply, Fault
-----------------------------------------------------------------------------
(* Requests and the copies of the tick.                                    *)

Sticks ==
  \A s \in Schedules \ crossed :
    /\ table[s].revision = asked[s].revision
    /\ Held(s) => copy[s].revision = asked[s].revision

\* The row the tick is at is no longer among those to look at.
Apart == pc \in {"marking", "marked", "sent"} => cur[1] \notin todo

\* Every step keeps the row the tick is at apart from those to look at.
LEMMA ApartStep ==
  ASSUME TypeOK, Apart, [Next]_vars
  PROVE  Apart'
BY DEF TypeOK, Apart, Next, Pass, Request, CreateSchedule, UpdateSchedule, DeleteSchedule,
   Requested, RunnerStep, ReadRows, TakeDue, PassOver, SaveMark, QueueTask, EndTick,
   Reply, Accepted, Delivered, Undelivered, Answered, Fault, MarkFails, Crash, Closed,
   vars, runner, ghosts

\* Every step keeps what requests were told, for the rows no tick held.
LEMMA SticksStep ==
  ASSUME TypeOK, Apart, Sticks, [Next]_vars
  PROVE  Sticks'
<1> USE DEF TypeOK, Apart, Sticks, Held
<1>1. CASE UNCHANGED <<table, asked, crossed, pc, todo, copy, cur>>
  BY <1>1
<1>2. ASSUME NEW s \in Schedules, NEW p \in Plans \cup {NoPlan}, Requested(s, Saved(p, edits + 1))
      PROVE  Sticks'
  BY <1>2 DEF Requested, runner
<1>3. CASE ReadRows
  BY <1>3 DEF ReadRows, ghosts
<1>4. ASSUME NEW s \in Schedules, TakeDue(s)
      PROVE  Sticks'
  <2>1. Ran(copy[s], now).revision = copy[s].revision
    BY DEF Ran
  <2> QED
    BY <1>4, <2>1 DEF TakeDue, ghosts
<1>5. ASSUME NEW s \in Schedules, PassOver(s)
      PROVE  Sticks'
  BY <1>5 DEF PassOver, ghosts
<1>6. CASE EndTick
  BY <1>6 DEF EndTick, ghosts
<1>7. CASE SaveMark
  BY <1>7 DEF SaveMark, ghosts
<1>8. CASE MarkFails
  BY <1>8 DEF MarkFails, ghosts
<1>9. CASE UNCHANGED <<table, todo, copy, ghosts>> /\ pc # "marking" /\ pc # "sleep" /\ pc' # "marking"
  BY <1>9 DEF ghosts
<1>16. CASE Crash
  BY <1>16 DEF Crash
<1> QED
  BY <1>1, <1>2, <1>3, <1>4, <1>5, <1>6, <1>7, <1>8, <1>9, <1>16
  DEF Next, Request, CreateSchedule, UpdateSchedule, DeleteSchedule, RunnerStep, Reply, Fault,
    Pass, QueueTask, Accepted, Delivered, Undelivered, Answered, Closed, vars, runner, ghosts
-----------------------------------------------------------------------------
(* Tasks and those who wait for their end.                                 *)

\* A task somebody waits for has been recorded, and by one of the two only.
Waited ==
  /\ \A t \in watchers : task[t].of.revision # 0
  /\ pc = "sent" => task[cur[2]].of.revision # 0 /\ cur[2] \notin watchers
  /\ pc \in {"marking", "marked"} => copy[cur[1]].revision # 0

\* A queued task takes an unused record, which then holds the row it is of.
Queues(t) ==
  /\ task[t] = NoTaskRecord /\ pc = "marked" /\ pc' = "sent" /\ cur' = <<cur[1], t>>
  /\ UNCHANGED <<now, edits, table, copy, todo, watchers>>
  /\ \/ /\ task' = [task EXCEPT ![t] = [status |-> "queued", of |-> copy[cur[1]]]]
        /\ forsaken' = forsaken
     \/ /\ task' = [task EXCEPT ![t] = [status |-> "absent", of |-> copy[cur[1]]]]
        /\ forsaken' = forsaken \cup {t}

\* Queueing does that for one task.
LEMMA QueuesOne ==
  ASSUME QueueTask
  PROVE  \E t \in Tasks : Queues(t)
<1> DEFINE t == CHOOSE u \in Tasks : u \in Fresh
<1>1. t \in Tasks /\ task[t] = NoTaskRecord
  BY DEF QueueTask, Fresh
<1>2. Queues(t)
  BY <1>1 DEF QueueTask, Queues
<1> QED
  BY <1>1, <1>2

\* A row is not ahead of its time, and one that is on was saved by a request.
Fine(row) ==
  /\ row.enabled => row.revision # 0
  /\ row.revision <= edits
  /\ row.lastRunAt <= now /\ row.lastRunDate <= Day(now)
  /\ row.completedRuns > 0 => row.lastRunAt \in Nat

AllFine == /\ \A s \in Schedules : Fine(table[s]) /\ Fine(copy[s])
           /\ \A t \in Tasks : Fine(task[t].of)

\* The rows change in no other way than these.
RowsChange ==
  \/ UNCHANGED <<table, copy, task, edits>> /\ now' = now
  \/ Pass
  \/ \E s \in Schedules, p \in Plans \cup {NoPlan} : Requested(s, Saved(p, edits + 1))
  \/ ReadRows
  \/ \E s \in Schedules : TakeDue(s)
  \/ SaveMark
  \/ QueueTask
  \/ Crash
  \/ /\ UNCHANGED <<table, copy, edits, now>>
     /\ \A t \in Tasks : task'[t].of = task[t].of
\* (the last one: the status of a task is recorded)

\* Every step changes the rows in one of these ways.
LEMMA RowsChangeOnly ==
  ASSUME TypeOK, [Next]_vars
  PROVE  RowsChange
<1>1. ASSUME NEW t \in Tasks, NEW st, Recorded(t, st)
      PROVE  \A u \in Tasks : task'[u].of = task[u].of
  BY <1>1 DEF Recorded, TypeOK
<1>2. cur[2] \in Tasks \/ pc # "sent"
  BY DEF TypeOK
<1> QED
  BY <1>1, <1>2 DEF RowsChange, Next, Request, CreateSchedule, UpdateSchedule, DeleteSchedule, RunnerStep,
     PassOver, EndTick, Reply, Accepted, Delivered, Undelivered, Answered, Fault, MarkFails,
     Closed, vars, runner, ghosts

\* Every such change keeps the rows fine.
LEMMA FineStep ==
  ASSUME TypeOK, TypeOK', AllFine, RowsChange
  PROVE  AllFine'
<1>0. /\ now \in Nat /\ now' \in Nat /\ edits \in Nat /\ Day(now) \in Nat
      /\ \A s \in Schedules : table[s] \in Row /\ copy[s] \in Row
      /\ \A t \in Tasks : task[t].of \in Row
  BY BoundsAssumption, DayHalf DEF TypeOK
<1>1. CASE UNCHANGED <<table, copy, task, edits>> /\ now' = now
  BY <1>1 DEF AllFine, Fine
<1>2. CASE Pass
  <2>1. now' = now + 1 /\ UNCHANGED <<table, copy, task, edits>>
    BY <1>2 DEF Pass, runner
  <2>2. Day(now) <= Day(now') /\ Day(now') \in Nat
    BY <2>1, <1>0, DayGrows, DayHalf
  <2>3. ASSUME NEW row \in Row, Fine(row)
        PROVE  Fine(row)'
    BY <2>1, <2>2, <2>3, <1>0, RowFields DEF Fine
  <2> QED
    BY <2>1, <2>3, <1>0 DEF AllFine
<1>3. ASSUME NEW s \in Schedules, NEW p \in Plans \cup {NoPlan}, Requested(s, Saved(p, edits + 1))
      PROVE  AllFine'
  <2>0. PICK new : new = Saved(p, edits + 1)
    OBVIOUS
  <2>1. /\ edits' = edits + 1 /\ UNCHANGED <<now, copy, task>>
        /\ table' = [table EXCEPT ![s] = new]
    BY <1>3, <2>0 DEF Requested, runner
  <2>2. Fine(new)'
    BY <2>0, <2>1, <1>0, SavedRow DEF Fine, Never
  <2>3. ASSUME NEW row \in Row, Fine(row)
        PROVE  Fine(row)'
    BY <2>1, <2>3, <1>0, RowFields DEF Fine
  <2>4. \A r \in Schedules : table'[r] = IF r = s THEN new ELSE table[r]
    BY <2>1 DEF TypeOK
  <2> QED
    BY <2>1, <2>2, <2>3, <2>4, <1>0 DEF AllFine
<1>4. CASE ReadRows
  BY <1>4 DEF ReadRows, AllFine, Fine
<1>5. ASSUME NEW s \in Schedules, TakeDue(s)
      PROVE  AllFine'
  <2>1. /\ UNCHANGED <<now, edits, table, task>> /\ Due(copy[s], now)
        /\ copy' = [copy EXCEPT ![s] = Ran(copy[s], now)]
    BY <1>5 DEF TakeDue
  <2>2. Fine(Ran(copy[s], now))
    BY <2>1, <1>0, DueIsPlanned, RanRow DEF AllFine, Fine, Ran
  <2>3. \A r \in Schedules : copy'[r] = IF r = s THEN Ran(copy[s], now) ELSE copy[r]
    BY <2>1 DEF TypeOK
  <2> QED
    BY <2>1, <2>2, <2>3 DEF AllFine, Fine
<1>6. CASE SaveMark
  BY <1>6 DEF SaveMark, AllFine, Fine, TypeOK
<1>7. CASE QueueTask
  <2>1. PICK t \in Tasks : Queues(t)
    BY <1>7, QueuesOne
  <2>2. cur[1] \in Schedules
    BY <2>1 DEF TypeOK, Queues
  <2> QED
    BY <2>1, <2>2 DEF AllFine, Fine, TypeOK, Queues
<1>8. CASE Crash
  BY <1>8, <1>0, NoRowIsRow DEF Crash, AllFine, Fine, Never
<1>9. CASE UNCHANGED <<table, copy, edits, now>> /\ \A t \in Tasks : task'[t].of = task[t].of
  BY <1>9 DEF AllFine, Fine
<1> QED
  BY <1>1, <1>2, <1>3, <1>4, <1>5, <1>6, <1>7, <1>8, <1>9 DEF RowsChange

\* Every step keeps who waits for whom.
LEMMA WaitedStep ==
  ASSUME TypeOK, TypeOK', AllFine, Waited, [Next]_vars
  PROVE  Waited'
<1> USE DEF TypeOK, Waited
<1>1. CASE UNCHANGED <<watchers, task, pc, cur, copy>>
  BY <1>1
<1>2. ASSUME NEW s \in Schedules, TakeDue(s)
      PROVE  Waited'
  <2>1. /\ copy' = [copy EXCEPT ![s] = Ran(copy[s], now)] /\ cur' = <<s>> /\ pc' = "marking"
        /\ UNCHANGED <<watchers, task>> /\ copy[s].enabled
    BY <1>2 DEF TakeDue, Due
  <2>2. Ran(copy[s], now).revision # 0
    BY <2>1 DEF AllFine, Fine, Ran
  <2> QED
    BY <2>1, <2>2
<1>3. CASE QueueTask
  <2>1. PICK t \in Tasks : Queues(t)
    BY <1>3, QueuesOne
  <2>2. t \notin watchers
    BY <2>1, NoRowIsRow DEF NoTaskRecord, Queues
  <2> QED
    BY <2>1, <2>2 DEF Queues
<1>4. ASSUME NEW t \in Tasks, NEW st, Recorded(t, st)
      PROVE  \A u \in Tasks : task'[u].of = task[u].of
  BY <1>4 DEF Recorded
<1>5. CASE Accepted
  BY <1>5 DEF Accepted
<1>6. CASE Delivered \/ Undelivered
  <2>1. \A u \in Tasks : task'[u].of = task[u].of
    BY <1>6, <1>4 DEF Delivered, Undelivered
  <2> QED
    BY <1>6, <2>1 DEF Delivered, Undelivered
<1>7. ASSUME NEW t \in Tasks, Answered(t, "completed") \/ Answered(t, "failed")
      PROVE  Waited'
  <2>1. \A u \in Tasks : task'[u].of = task[u].of
    BY <1>7, <1>4 DEF Answered
  <2> QED
    BY <1>7, <2>1 DEF Answered, runner
<1>8. ASSUME NEW t \in Tasks, Closed(t)
      PROVE  Waited'
  BY <1>8 DEF Closed, runner
<1>9. CASE ReadRows \/ SaveMark \/ EndTick \/ MarkFails \/ Crash \/ \E s \in Schedules : PassOver(s)
  BY <1>9 DEF ReadRows, SaveMark, EndTick, MarkFails, Crash, PassOver
<1> QED
  BY <1>1, <1>2, <1>3, <1>5, <1>6, <1>7, <1>8, <1>9
  DEF Next, Request, CreateSchedule, UpdateSchedule, DeleteSchedule, Requested, RunnerStep, Reply,
    Fault, Pass, vars, runner, ghosts

\* Every step keeps queued tasks and their watchers together.
LEMMA QueueStep ==
  ASSUME TypeOK, Waited, QueuedIsWatched, [Next]_vars
  PROVE  QueuedIsWatched'
<1> USE DEF TypeOK, Waited, QueuedIsWatched
<1>1. CASE UNCHANGED <<watchers, task, cur, forsaken>> /\ (pc = "sent" <=> pc' = "sent")
  BY <1>1
<1>3. CASE QueueTask
  <2>1. PICK t \in Tasks : Queues(t)
    BY <1>3, QueuesOne
  <2>2. t \notin watchers
    BY <2>1, NoRowIsRow DEF NoTaskRecord, Queues
  <2> QED
    BY <2>1, <2>2 DEF Queues
<1>4. ASSUME NEW t \in Tasks, NEW st \in {"completed", "failed"}, Recorded(t, st)
      PROVE  /\ \A u \in Tasks \ {t} : task'[u] = task[u]
             /\ t \notin forsaken' => task'[t].status = st
             /\ forsaken \subseteq forsaken' /\ forsaken' \subseteq forsaken \cup {t}
  BY <1>4 DEF Recorded
<1>5. CASE Accepted
  BY <1>5 DEF Accepted
<1>6. CASE Delivered \/ Undelivered
  <2>1. \E st \in {"completed", "failed"} : Recorded(cur[2], st)
    BY <1>6 DEF Delivered, Undelivered
  <2>2. pc = "sent" /\ pc' = "rows" /\ watchers' = watchers /\ cur[2] \in Tasks
    BY <1>6 DEF Delivered, Undelivered
  <2> QED
    BY <2>1, <2>2, <1>4
<1>7. ASSUME NEW t \in Tasks, Answered(t, "completed") \/ Answered(t, "failed")
      PROVE  QueuedIsWatched'
  <2>1. \E st \in {"completed", "failed"} : Recorded(t, st)
    BY <1>7 DEF Answered
  <2>2. t \in watchers /\ watchers' = watchers \ {t} /\ pc' = pc /\ cur' = cur
    BY <1>7 DEF Answered, runner
  <2> QED
    BY <2>1, <2>2, <1>4
<1>8. ASSUME NEW t \in Tasks, Closed(t)
      PROVE  QueuedIsWatched'
  BY <1>8 DEF Closed, runner
<1>9. CASE ReadRows \/ SaveMark \/ EndTick \/ MarkFails \/ \E s \in Schedules : PassOver(s) \/ TakeDue(s)
  BY <1>9 DEF ReadRows, SaveMark, EndTick, MarkFails, PassOver, TakeDue
<1>10. CASE Crash
  BY <1>10 DEF Crash
<1> QED
  BY <1>1, <1>3, <1>5, <1>6, <1>7, <1>8, <1>9, <1>10
  DEF Next, Request, CreateSchedule, UpdateSchedule, DeleteSchedule, Requested, RunnerStep, Reply,
    Fault, Pass, vars, runner, ghosts
-----------------------------------------------------------------------------
(* How far a row has come with its plan.                                   *)

\* Row b has come as far as row a of the same request, or farther.
UpTo(a, b) ==
  /\ a.plan = b.plan
  /\ a.lastRunAt <= b.lastRunAt /\ a.lastRunDate <= b.lastRunDate
  /\ a.completedRuns <= b.completedRuns
  /\ a.completed => b.completed

\* Row b has one more run than row a at least.
Before(a, b) ==
  /\ UpTo(a, b)
  /\ a.plan.kind = "fixed" => a.lastRunDate < b.lastRunDate
  /\ a.plan.kind = "once" => ~a.completed /\ b.completed
  /\ a.plan.kind = "repeat" => /\ a.completedRuns < b.completedRuns
                               /\ \/ a.completedRuns = 0
                                  \/ b.lastRunAt - a.lastRunAt >= a.plan.interval

\* A row as a run left it.
HasRun(row) ==
  /\ row.revision # 0 /\ row.plan \in Plans /\ row.lastRunAt \in Nat
  /\ row.plan.kind = "fixed" => row.plan.half <= Half(row.lastRunAt)
  /\ row.plan.kind = "once" => row.completed
  /\ row.plan.kind = "repeat" => row.completedRuns \in 1 .. row.plan.repeat

\* The fields of a plan, one by one.
LEMMA PlanFields ==
  ASSUME NEW p \in Plans
  PROVE  /\ p.kind \in {"fixed", "once", "repeat"} /\ p.half \in {0, 1}
         /\ p.interval \in Nat \ {0} /\ p.repeat \in Nat \ {0}
BY PlansAssumption

\* A row has come as far as itself.
LEMMA UpToItself ==
  ASSUME NEW a \in Row
  PROVE  UpTo(a, a)
BY RowFields DEF UpTo

\* A run of a later row is a run more than the earlier row has.
LEMMA BeforeLater ==
  ASSUME NEW a \in Row, NEW b \in Row, NEW c \in Row, UpTo(a, b), Before(b, c), a.plan \in Plans
  PROVE  Before(a, c)
<1>1. a.plan = b.plan /\ b.plan.interval \in Nat
  BY PlanFields DEF UpTo
<1>2. UpTo(a, c)
  BY RowFields DEF UpTo, Before
<1>3. a.plan.kind = "fixed" => a.lastRunDate < c.lastRunDate
  BY RowFields DEF UpTo, Before
<1>4. a.plan.kind = "once" => ~a.completed /\ c.completed
  BY RowFields DEF UpTo, Before
<1>5. ASSUME a.plan.kind = "repeat"
      PROVE  /\ a.completedRuns < c.completedRuns
             /\ a.completedRuns = 0 \/ c.lastRunAt - a.lastRunAt >= a.plan.interval
  BY <1>1, <1>5, RowFields DEF UpTo, Before
<1> QED
  BY <1>2, <1>3, <1>4, <1>5 DEF Before

\* A run takes a due row one run farther.
LEMMA RunGoesOn ==
  ASSUME TypeOK, NEW row \in Row, Fine(row), Due(row, now)
  PROVE  HasRun(Ran(row, now)) /\ Before(row, Ran(row, now))
<1> DEFINE new == Ran(row, now)
<1>1. now \in Nat /\ Day(now) \in Nat /\ row.plan \in Plans /\ row.enabled
  BY DayHalf, DueIsPlanned DEF TypeOK
<1>2. /\ row.plan.kind \in {"fixed", "once", "repeat"}
      /\ row.plan.half \in {0, 1} /\ row.plan.interval \in Nat \ {0}
      /\ row.plan.repeat \in Nat \ {0}
  BY <1>1, PlanFields
<1>3. /\ new \in Row /\ new.plan = row.plan /\ new.revision = row.revision
      /\ new.lastRunAt = now /\ new.lastRunDate = Day(now)
      /\ new.completedRuns = row.completedRuns + (IF row.plan.kind = "repeat" THEN 1 ELSE 0)
      /\ row.plan.kind = "once" => new.completed
      /\ row.completed => new.completed
  BY <1>1, RanRow DEF RunsAfter, LastRun
<1> HIDE DEF new
<1>4. /\ row.lastRunAt \in Int /\ row.lastRunDate \in Int /\ row.completedRuns \in Nat
      /\ row.revision # 0 /\ row.lastRunAt <= now /\ row.lastRunDate <= Day(now)
      /\ row.completedRuns > 0 => row.lastRunAt \in Nat
  BY <1>1, RowFields DEF Fine
<1>5. UpTo(row, new)
  BY <1>1, <1>3, <1>4 DEF UpTo
<1>6. CASE row.plan.kind = "fixed"
  BY <1>1, <1>2, <1>3, <1>4, <1>5, <1>6 DEF HasRun, Before, Due, FixedDue, new
<1>7. CASE row.plan.kind = "once"
  BY <1>1, <1>2, <1>3, <1>4, <1>5, <1>7 DEF HasRun, Before, Due, new
<1>8. CASE row.plan.kind = "repeat"
  BY <1>1, <1>2, <1>3, <1>4, <1>5, <1>8 DEF HasRun, Before, Due, RepeatDue, Never, new
<1> QED
  BY <1>2, <1>6, <1>7, <1>8 DEF new
-----------------------------------------------------------------------------
(* The runs of one request's plan come one after the other.                *)

\* Two rows of one request.
Same(a, b) == a.revision = b.revision /\ a.revision # 0

\* A request changes one schedule, and the tick keeps to it.
Separate ==
  \A s, r \in Schedules : s # r =>
    /\ ~Same(table[s], table[r])
    /\ pc # "sleep" => ~Same(copy[s], table[r]) /\ ~Same(copy[s], copy[r])

\* A task's row is an earlier state of every row of its request that may still
\* be run: the one in the table, those the tick has still to look at, and,
\* until its task is there, the one it is at.
TasksBehind ==
  \A t \in Tasks :
    /\ \A s \in Schedules :
         /\ Same(task[t].of, table[s]) => UpTo(task[t].of, table[s])
         /\ s \in todo /\ Same(task[t].of, copy[s]) => UpTo(task[t].of, copy[s])
    /\ pc \in {"marking", "marked"} /\ Same(task[t].of, copy[cur[1]]) =>
         Before(task[t].of, copy[cur[1]])

\* What the tick has marked is in the table when its task is queued, unless a
\* request came in between.
MarkSaved ==
  /\ pc \in {"marking", "marked"} => HasRun(copy[cur[1]])
  /\ pc = "marked" /\ Same(table[cur[1]], copy[cur[1]]) => table[cur[1]] = copy[cur[1]]

TasksHaveRun == \A t \in Tasks : task[t].of # NoRow => HasRun(task[t].of)

InOrder == \A t, u \in Tasks : t # u /\ Same(task[t].of, task[u].of) =>
             Before(task[t].of, task[u].of) \/ Before(task[u].of, task[t].of)

Order == Separate /\ TasksBehind /\ MarkSaved /\ TasksHaveRun /\ InOrder

\* The tick goes on to its next row, or stops; the rows stay as they are.
GoesOn == /\ UNCHANGED <<table, copy>> /\ todo' \subseteq todo
          /\ \A t \in Tasks : task'[t].of = task[t].of
          /\ \/ UNCHANGED <<pc, cur>>
             \/ pc # "sleep" /\ pc' \in {"rows", "sleep"}

\* Every step moves the rows in one of these ways.
LEMMA OrderMoves ==
  ASSUME TypeOK, [Next]_vars
  PROVE  \/ GoesOn
         \/ \E s \in Schedules, p \in Plans \cup {NoPlan} : Requested(s, Saved(p, edits + 1))
         \/ ReadRows \/ SaveMark \/ QueueTask \/ Crash
         \/ \E s \in Schedules : TakeDue(s)
<1>1. ASSUME NEW t \in Tasks, NEW st, Recorded(t, st)
      PROVE  \A u \in Tasks : task'[u].of = task[u].of
  BY <1>1 DEF Recorded, TypeOK
<1>2. cur[2] \in Tasks \/ pc # "sent"
  BY DEF TypeOK
<1> QED
  BY <1>1, <1>2 DEF GoesOn, Next, Request, CreateSchedule, UpdateSchedule, DeleteSchedule,
     RunnerStep, PassOver, EndTick, Reply, Accepted, Delivered, Undelivered, Answered,
     Fault, MarkFails, Closed, Pass, vars, runner, ghosts

\* Every step keeps the runs of a plan in order.
LEMMA OrderStep ==
  ASSUME TypeOK, TypeOK', Apart, AllFine, Order, [Next]_vars
  PROVE  Order'
<1> USE DEF Order
<1>0. /\ \A s \in Schedules : table[s] \in Row /\ copy[s] \in Row
      /\ \A t \in Tasks : task[t].of \in Row
      /\ edits \in Nat
  BY DEF TypeOK
<1>1. CASE GoesOn
  BY <1>1 DEF GoesOn, Separate, TasksBehind, MarkSaved, TasksHaveRun, InOrder
<1>2. ASSUME NEW s \in Schedules, NEW p \in Plans \cup {NoPlan}, Requested(s, Saved(p, edits + 1))
      PROVE  Order'
  <2>1. PICK new : new = Saved(p, edits + 1)
    OBVIOUS
  <2>2. /\ UNCHANGED <<pc, todo, copy, cur, task>>
        /\ \A r \in Schedules : table'[r] = IF r = s THEN new ELSE table[r]
    BY <1>2, <2>1 DEF Requested, runner, TypeOK
  <2>3. new.revision = edits + 1
    BY <2>1, <1>0, SavedRow
  <2>4. ASSUME NEW row \in Row, Fine(row)
        PROVE  ~Same(new, row) /\ ~Same(row, new)
    BY <2>3, <2>4, <1>0, RowFields DEF Same, Fine
  <2>5. Separate'
    BY <2>2, <2>4, <1>0 DEF Separate, AllFine
  <2>6. TasksBehind'
    BY <2>2, <2>4, <1>0 DEF TasksBehind, AllFine
  <2>7. MarkSaved'
    BY <2>2, <2>4, <1>0 DEF MarkSaved, AllFine, TypeOK
  <2> QED
    BY <2>2, <2>5, <2>6, <2>7 DEF TasksHaveRun, InOrder
<1>3. CASE ReadRows
  BY <1>3 DEF ReadRows, Separate, TasksBehind, MarkSaved, TasksHaveRun, InOrder
<1>4. ASSUME NEW s \in Schedules, TakeDue(s)
      PROVE  Order'
  <2>1. PICK new : new = Ran(copy[s], now)
    OBVIOUS
  <2>2. /\ UNCHANGED <<table, task>> /\ pc = "rows" /\ pc' = "marking" /\ cur' = <<s>>
        /\ s \in todo /\ todo' = todo \ {s}
        /\ \A r \in Schedules : copy'[r] = IF r = s THEN new ELSE copy[r]
    BY <1>4, <2>1 DEF TakeDue, TypeOK
  <2>3. HasRun(new) /\ Before(copy[s], new) /\ new.revision = copy[s].revision /\ new \in Row
    BY <1>4, <2>1, <1>0, RunGoesOn, RanRow, DueIsPlanned DEF TakeDue, AllFine, TypeOK
  <2>4. Separate'
    BY <2>2, <2>3 DEF Separate, Same
  <2>5. ASSUME NEW t \in Tasks, Same(task[t].of, new)
        PROVE  Before(task[t].of, new)
    <3>1. UpTo(task[t].of, copy[s])
      BY <2>2, <2>3, <2>5 DEF TasksBehind, Same
    <3>2. task[t].of.plan \in Plans
      BY <2>5, <3>1, <2>3 DEF HasRun, UpTo, Before
    <3> QED
      BY <3>1, <3>2, <2>3, <1>0, BeforeLater
  <2>6. TasksBehind'
    BY <2>2, <2>5 DEF TasksBehind
  <2>7. MarkSaved'
    BY <2>2, <2>3 DEF MarkSaved
  <2> QED
    BY <2>2, <2>4, <2>6, <2>7 DEF TasksHaveRun, InOrder
<1>5. CASE SaveMark
  <2>1. /\ UNCHANGED <<todo, copy, cur, task>> /\ pc = "marking" /\ pc' = "marked"
        /\ cur[1] \in Schedules
        /\ \A r \in Schedules : table'[r] = IF r = cur[1] THEN copy[cur[1]] ELSE table[r]
    BY <1>5 DEF SaveMark, TypeOK
  <2>2. Separate'
    BY <2>1 DEF Separate, Same
  <2>3. TasksBehind'
    BY <2>1 DEF TasksBehind, Before
  <2>4. MarkSaved'
    BY <2>1 DEF MarkSaved
  <2> QED
    BY <2>1, <2>2, <2>3, <2>4 DEF TasksHaveRun, InOrder
<1>6. CASE QueueTask
  <2>1. PICK t \in Tasks : Queues(t)
    BY <1>6, QueuesOne
  <2>2. PICK new : new = copy[cur[1]]
    OBVIOUS
  <2>3. /\ UNCHANGED <<table, copy, todo>> /\ pc = "marked" /\ pc' = "sent"
        /\ \A u \in Tasks : task'[u].of = IF u = t THEN new ELSE task[u].of
        /\ cur[1] \in Schedules /\ cur[1] \notin todo /\ new \in Row /\ HasRun(new)
    BY <2>1, <2>2 DEF Queues, TypeOK, Apart, MarkSaved
  <2>4. Separate'
    BY <2>3 DEF Separate
  <2>5. ASSUME NEW s \in Schedules
        PROVE  /\ Same(new, table[s]) => UpTo(new, table[s])
               /\ s \in todo => ~Same(new, copy[s])
    <3>1. CASE s = cur[1]
      BY <3>1, <2>2, <2>3, <1>0, UpToItself DEF MarkSaved, Same
    <3>2. CASE s # cur[1]
      BY <3>2, <2>2, <2>3 DEF Separate
    <3> QED
      BY <3>1, <3>2
  <2>6. TasksBehind'
    BY <2>3, <2>5 DEF TasksBehind
  <2>7. MarkSaved' /\ TasksHaveRun'
    BY <2>3 DEF MarkSaved, TasksHaveRun
  <2>8. InOrder'
    BY <2>2, <2>3 DEF InOrder, TasksBehind, Same
  <2> QED
    BY <2>4, <2>6, <2>7, <2>8
<1>7. CASE Crash
  BY <1>7 DEF Crash, Separate, TasksBehind, MarkSaved, TasksHaveRun, InOrder
<1> QED
  BY <1>1, <1>2, <1>3, <1>4, <1>5, <1>6, <1>7, OrderMoves
-----------------------------------------------------------------------------
(* The invariant and the theorems.                                         *)

Inv == TypeOK /\ Apart /\ Sticks /\ AllFine /\ Waited /\ QueuedIsWatched /\ Order

\* The gateway starts in the invariant.
LEMMA Begins == Init => Inv
<1> SUFFICES ASSUME Init PROVE Inv
  OBVIOUS
<1>1. TypeOK
  BY TypesBegin
<1>2. /\ table = [s \in Schedules |-> NoRow] /\ copy = table /\ asked = table
      /\ task = [t \in Tasks |-> NoTaskRecord] /\ NoTaskRecord.of = NoRow
      /\ NoTaskRecord.status = "absent"
      /\ pc = "sleep" /\ todo = {} /\ watchers = {} /\ now = 0 /\ edits = 0
  BY DEF Init, NoTaskRecord
<1>3. Day(0) \in Nat
  BY DayHalf
<1>4. Apart /\ Sticks /\ Waited /\ QueuedIsWatched
  BY <1>2 DEF Apart, Sticks, Held, Waited, QueuedIsWatched
<1>5. Fine(NoRow)
  BY <1>2, <1>3, NoRowIsRow DEF Fine, Never
<1>6. AllFine
  BY <1>2, <1>5 DEF AllFine
<1>7. Order
  BY <1>2, NoRowIsRow DEF Order, Separate, TasksBehind, MarkSaved, TasksHaveRun, InOrder, Same
<1> QED
  BY <1>1, <1>4, <1>6, <1>7 DEF Inv

\* Every step keeps the invariant.
LEMMA Keeps == Inv /\ [Next]_vars => Inv'
<1> SUFFICES ASSUME Inv, [Next]_vars PROVE Inv'
  OBVIOUS
<1>1. TypeOK'
  BY TypesStep DEF Inv
<1>2. AllFine'
  BY <1>1, RowsChangeOnly, FineStep DEF Inv
<1> QED
  BY <1>1, <1>2, ApartStep, SticksStep, WaitedStep, QueueStep, OrderStep DEF Inv

\* Inv is an invariant of the gateway's schedules.
LEMMA Invariance == Spec => []Inv
BY Begins, Keeps, PTL DEF Spec

\* Every row, mark and record stays in its set, whatever requests, ticks,
\* answers and faults do.
THEOREM ApiTypes == Spec => []TypeOK
<1>1. Inv => TypeOK
  BY DEF Inv
<1> QED
  BY <1>1, Invariance, PTL

\* What a request was told to be saved stays, unless the tick held the row.
THEOREM EditsStick == Spec => []EditSticks
<1>1. Inv => EditSticks
  BY DEF Inv, Sticks, EditSticks
<1> QED
  BY <1>1, Invariance, PTL

\* A queued task has somebody who will record its end, unless a fault took it.
THEOREM QueuedHasWatcher == Spec => []QueuedIsWatched
<1>1. Inv => QueuedIsWatched
  BY DEF Inv
<1> QED
  BY <1>1, Invariance, PTL

\* A fixed schedule runs once a day, and not before its time.
THEOREM FixedOncePerDay == Spec => []OncePerDay
<1>1. ASSUME Inv
      PROVE  OncePerDay
  <2> SUFFICES ASSUME NEW t \in Tasks, NEW u \in Tasks, t # u,
                      task[t].of.plan.kind = "fixed", task[t].of.revision = task[u].of.revision
               PROVE  /\ task[t].of.lastRunDate # task[u].of.lastRunDate
                      /\ task[t].of.plan.half <= Half(task[t].of.lastRunAt)
    BY DEF OncePerDay
  <2>1. task[t].of \in Row /\ task[u].of \in Row
    BY <1>1 DEF Inv, TypeOK
  <2>2. task[t].of # NoRow
    BY NoRowIsRow DEF NoPlan
  <2>3. HasRun(task[t].of)
    BY <1>1, <2>2 DEF Inv, Order, TasksHaveRun
  <2>4. Before(task[t].of, task[u].of) \/ Before(task[u].of, task[t].of)
    BY <1>1, <2>3 DEF Inv, Order, InOrder, Same, HasRun
  <2> QED
    BY <2>1, <2>3, <2>4, RowFields DEF HasRun, Before, UpTo
<1> QED
  BY <1>1, Invariance, PTL

\* No more tasks than runs: their numbers are different and at most repeat.
LEMMA RunsBounded ==
  ASSUME Inv, NEW t \in Tasks, task[t].of.revision # 0, task[t].of.plan.kind = "repeat"
  PROVE  Cardinality(Runs(task[t].of.revision)) <= task[t].of.plan.repeat
<1> DEFINE R == Runs(task[t].of.revision)
           n == task[t].of.plan.repeat
           number == [u \in R |-> task[u].of.completedRuns]
<1>1. \A u \in Tasks : task[u].of \in Row
  BY DEF Inv, TypeOK
<1>2. \A u \in R : u \in Tasks /\ task[u].of.revision = task[t].of.revision
  BY DEF Runs
<1>3. \A u \in R : HasRun(task[u].of)
  BY <1>2, NoRowIsRow DEF Inv, Order, TasksHaveRun
<1>4. \A u, v \in R : u # v => Before(task[u].of, task[v].of) \/ Before(task[v].of, task[u].of)
  BY <1>2 DEF Inv, Order, InOrder, Same
<1>5. t \in R
  BY DEF Runs
<1>6. \A u \in R : task[u].of.plan = task[t].of.plan
  BY <1>4, <1>5 DEF Before, UpTo
<1>7. n \in Nat
  BY <1>3, <1>5, PlanFields DEF HasRun
<1>8. \A u \in R : task[u].of.completedRuns \in 1 .. n
  BY <1>3, <1>6 DEF HasRun
<1>9. \A u, v \in R : u # v => task[u].of.completedRuns # task[v].of.completedRuns
  BY <1>1, <1>2, <1>4, <1>6, RowFields DEF Before
<1> HIDE DEF n, R
<1>10. IsFiniteSet(1 .. n) /\ Cardinality(1 .. n) = n
  <2>1. 1 \in Int /\ n \in Int
    BY <1>7
  <2>2. IsFiniteSet(1 .. n) /\ Cardinality(1 .. n) = IF 1 > n THEN 0 ELSE n - 1 + 1
    BY <2>1, FS_Interval, Zenon
  <2> QED
    BY <1>7, <2>2
<1>11. number \in Injection(R, 1 .. n)
  BY <1>8, <1>9 DEF Injection, IsInjective
<1>12. Cardinality(R) <= Cardinality(1 .. n)
  BY <1>10, <1>11, FS_Injection DEF ExistsInjection
<1> QED
  BY <1>10, <1>12 DEF R, n

\* A plan that is sent once, or repeat times, starts no more tasks than that,
\* and those of a repeated plan an interval apart.
THEOREM CountAlwaysKept == Spec => []CountKept
<1>1. ASSUME Inv
      PROVE  CountKept
  <2> SUFFICES ASSUME NEW t \in Tasks, NEW u \in Tasks, task[t].of.revision # 0,
                      task[t].of.revision = task[u].of.revision
               PROVE  /\ task[t].of.plan.kind = "once" => t = u
                      /\ task[t].of.plan.kind = "repeat" =>
                           /\ Cardinality(Runs(task[t].of.revision)) <= task[t].of.plan.repeat
                           /\ t # u =>
                             \/ task[t].of.lastRunAt - task[u].of.lastRunAt >= task[t].of.plan.interval
                             \/ task[u].of.lastRunAt - task[t].of.lastRunAt >= task[t].of.plan.interval
    BY DEF CountKept
  <2>1. task[t].of \in Row /\ task[u].of \in Row
    BY <1>1 DEF Inv, TypeOK
  <2>2. HasRun(task[t].of) /\ HasRun(task[u].of)
    BY <1>1, NoRowIsRow DEF Inv, Order, TasksHaveRun
  <2>3. t # u => Before(task[t].of, task[u].of) \/ Before(task[u].of, task[t].of)
    BY <1>1 DEF Inv, Order, InOrder, Same
  <2>4. task[t].of.plan.kind = "once" => t = u
    BY <2>2, <2>3 DEF HasRun, Before, UpTo
  <2>5. ASSUME task[t].of.plan.kind = "repeat", t # u
        PROVE  \/ task[t].of.lastRunAt - task[u].of.lastRunAt >= task[t].of.plan.interval
               \/ task[u].of.lastRunAt - task[t].of.lastRunAt >= task[t].of.plan.interval
    BY <2>1, <2>2, <2>3, <2>5, RowFields DEF HasRun, Before, UpTo
  <2> QED
    BY <1>1, <2>4, <2>5, RunsBounded
<1> QED
  BY <1>1, Invariance, PTL
=============================================================================
