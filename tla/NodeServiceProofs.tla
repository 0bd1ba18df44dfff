-------------------------- MODULE NodeServiceProofs --------------------------
(***************************************************************************)
(* Proofs about the node service, for any schedules, tasks, plans and      *)
(* bounds.  The inductive invariant Inv adds two facts to the invariants   *)
(* that are checked: PlacesAgree, which says what each place of a task     *)
(* means for its row (a stop finds a row, a tick an unused one), and       *)
(* RowsRight, which says that a schedule that is on has firings left, so   *)
(* that a firing can take one.  From Inv follow the theorems about tasks   *)
(* and tables, and that every step is a step of SchedulePlan or none.      *)
(***************************************************************************)
EXTENDS NodeService, TLAPS

\* The next slot of a fixed schedule is a later minute.
LEMMA NextFixedLater ==
  ASSUME NEW t \in Nat
  PROVE  NextFixed(t) \in Nat /\ NextFixed(t) > t
<1>1. t % FixedGap \in 0 .. FixedGap - 1
  BY FixedGapAssumption
<1> QED
  BY <1>1, FixedGapAssumption DEF NextFixed

\* What is stored of a plan: sent once unless it repeats, and of the same kind.
LEMMA NormalizedPlan ==
  ASSUME NEW plan \in PlanFields
  PROVE  /\ Normalized(plan) \in PlanFields
         /\ IsFixed(Normalized(plan)) <=> IsFixed(plan)
         /\ ~IsFixed(plan) => /\ Normalized(plan).repeat >= 1
                              /\ ~Normalized(plan).continuous => Normalized(plan).repeat = 1
                              /\ Normalized(plan).continuous <=> plan.continuous
<1> DEFINE n == Normalized(plan)
<1>1. /\ n.kind = plan.kind /\ n.interval = plan.interval
      /\ n.continuous <=> (IsFixed(plan) \/ plan.continuous)
      /\ n.repeat = IF IsFixed(plan) THEN 0
                    ELSE IF ~plan.continuous THEN 1
                    ELSE IF plan.repeat = 0 THEN 2 ELSE plan.repeat
  BY DEF Normalized
<1>2. n \in PlanFields
  BY DEF Normalized, PlanFields
<1> HIDE DEF n
<1>3. (IsFixed(n) <=> IsFixed(plan)) /\ plan.repeat \in Nat
  BY <1>1 DEF IsFixed, PlanFields
<1>4. ~IsFixed(plan) => /\ n.repeat >= 1 /\ (~n.continuous => n.repeat = 1)
                        /\ n.continuous <=> plan.continuous
  BY <1>1, <1>3
<1> QED
  BY <1>2, <1>3, <1>4 DEF n

\* A schedule that is on has a live row and, unless it is fixed, firings left:
\* one when it is sent once.
RowRight(row) ==
  row.enabled => /\ row.row = "live"
                 /\ ~IsFixed(row.plan) =>
                      row.remaining >= 1 /\ (~row.plan.continuous => row.remaining = 1)

\* A new row is a row, and has firings left when it is on.
LEMMA CreatedRight ==
  ASSUME NEW enabled \in BOOLEAN, NEW plan \in PlanFields, NEW sendAt \in Minutes, NEW t \in Nat
  PROVE  Created(enabled, plan, sendAt, t) \in Row /\ RowRight(Created(enabled, plan, sendAt, t))
<1> DEFINE n == Normalized(plan)
<1>1. /\ n \in PlanFields /\ n.repeat \in Nat
      /\ ~IsFixed(n) => n.repeat >= 1 /\ (~n.continuous => n.repeat = 1)
  BY NormalizedPlan DEF PlanFields
<1>2. InitialNext(n, sendAt, t) \in Minutes /\ NoTime \in Minutes
  BY NextFixedLater DEF InitialNext, Minutes
<1> HIDE DEF n
<1>3. Created(enabled, plan, sendAt, t) =
        [row |-> "live", enabled |-> enabled, sendAt |-> sendAt, plan |-> n,
         remaining |-> IF enabled /\ ~IsFixed(n) THEN n.repeat ELSE 0,
         next |-> IF enabled THEN InitialNext(n, sendAt, t) ELSE NoTime]
  BY DEF Created, n
<1> QED
  BY <1>1, <1>2, <1>3 DEF Row, RowRight

\* So has a patched one; a patch that changes nothing resets nothing.
LEMMA UpdatedRight ==
  ASSUME NEW cur \in Row, RowRight(cur),
         NEW reset \in BOOLEAN, NEW enabled \in BOOLEAN, NEW plan \in PlanFields,
         NEW sendAt \in Minutes, NEW t \in Nat,
         ~reset => enabled = cur.enabled /\ plan = cur.plan
  PROVE  /\ Updated(cur, reset, enabled, plan, sendAt, t) \in Row
         /\ RowRight(Updated(cur, reset, enabled, plan, sendAt, t))
<1> DEFINE n == Normalized(plan)
           remaining == IF reset THEN n.repeat ELSE cur.remaining
           next == IF reset THEN InitialNext(n, sendAt, t)
                   ELSE IF cur.next # NoTime THEN cur.next ELSE sendAt
           new == [row |-> "live", enabled |-> enabled, sendAt |-> sendAt, plan |-> n,
                   remaining |-> IF enabled /\ ~IsFixed(n) THEN remaining ELSE 0,
                   next |-> IF enabled THEN next ELSE NoTime]
<1>1. /\ n \in PlanFields /\ n.repeat \in Nat
      /\ IsFixed(n) <=> IsFixed(plan)
      /\ ~IsFixed(n) => /\ n.repeat >= 1 /\ (~n.continuous => n.repeat = 1)
                        /\ n.continuous <=> plan.continuous
  BY NormalizedPlan DEF PlanFields
<1>2. next \in Minutes /\ NoTime \in Minutes
  <2>1. InitialNext(n, sendAt, t) \in Minutes /\ NoTime \in Minutes
    BY NextFixedLater DEF InitialNext, Minutes
  <2> QED
    BY <2>1 DEF Row
<1>3. remaining \in Nat
  BY <1>1 DEF Row
<1>4. enabled /\ ~IsFixed(n) => remaining >= 1 /\ (~n.continuous => remaining = 1)
  BY <1>1 DEF RowRight
<1>5. Updated(cur, reset, enabled, plan, sendAt, t) = new
  BY DEF Updated
<1> HIDE DEF n, remaining, next
<1>6. new \in Row /\ RowRight(new)
  BY <1>1, <1>2, <1>3, <1>4 DEF Row, RowRight
<1> QED
  BY <1>5, <1>6

\* A firing uses one of the firings left and moves to a later minute, or switches
\* the schedule off.
LEMMA MarkedRight ==
  ASSUME NEW cur \in Row, RowRight(cur), cur.enabled, NEW t \in Nat
  PROVE  LET new == MarkedSent(cur, t)
         IN /\ new \in Row /\ RowRight(new)
            /\ new.plan = cur.plan
            /\ IsFixed(cur.plan) => new.enabled /\ new.next > t
            /\ ~IsFixed(cur.plan) =>
                 /\ new.remaining = cur.remaining - 1
                 /\ new.enabled <=> new.remaining > 0
                 /\ new.enabled => new.next > t
<1> DEFINE left == IF cur.remaining > 0 THEN cur.remaining - 1 ELSE 0
<1>1. /\ cur.remaining \in Nat /\ cur.plan.interval \in Nat \ {0} /\ cur.row = "live"
      /\ left \in Nat /\ NoTime \in Minutes
      /\ cur.plan \in PlanFields
      /\ ~IsFixed(cur.plan) => cur.remaining >= 1 /\ (~cur.plan.continuous => cur.remaining = 1)
  BY DEF Row, PlanFields, RowRight, Minutes
<1>2. NextFixed(t) \in Minutes /\ NextFixed(t) > t
  BY NextFixedLater DEF Minutes
<1>3. t + cur.plan.interval \in Minutes /\ t + cur.plan.interval > t
  BY <1>1 DEF Minutes
<1>4. CASE IsFixed(cur.plan)
  BY <1>1, <1>2, <1>4 DEF MarkedSent, Moved, Row, RowRight
<1>5. CASE ~IsFixed(cur.plan) /\ ~(cur.plan.continuous /\ left > 0)
  BY <1>1, <1>5 DEF MarkedSent, Moved, Row, RowRight
<1>6. CASE ~IsFixed(cur.plan) /\ cur.plan.continuous /\ left > 0
  BY <1>1, <1>3, <1>6 DEF MarkedSent, Moved, Row, RowRight
<1> QED
  BY <1>4, <1>5, <1>6
-----------------------------------------------------------------------------
(* The inductive invariant.                                                *)

\* Where a task is says what its row says of it.
PlacesAgree ==
  \A t \in Tasks :
    /\ worker[t] = "posted" => status[t] = "queued" /\ owner[t] = NoSchedule
    /\ worker[t] \in {"snapshot", "child", "exited", "broken"} => status[t] = "running"
    /\ worker[t] = "none" => status[t] = "absent" \/ status[t] \in Ended
    /\ status[t] = "absent" => /\ worker[t] = "none" /\ owner[t] = NoSchedule
                              /\ run[t] = "none" /\ t \notin aborted /\ watched # t

RowsRight == \A s \in Schedules : RowRight(schedule[s])

Inv == /\ TypeOK /\ PlacesAgree /\ RowsRight
       /\ StoppedNotCompleted /\ RunningIsLive /\ TablesAgree /\ EndIsHeard

\* The three ways in which a task ends while the process lives.
EndsWith(t, e) == /\ worker[t] \in Alive /\ e \in Ended
                  /\ e = "completed" => t \notin aborted
                  /\ Finish(t, e)

\* Each of them is one of the three.
LEMMA Ends ==
  ASSUME NEW t \in Tasks, TypeOK, EndUnstarted(t) \/ ChildFails(t) \/ Report(t)
  PROVE  \E e \in Ended : EndsWith(t, e)
<1>1. CASE EndUnstarted(t)
  BY <1>1 DEF EndUnstarted, EndsWith, Ended, Alive, Places
<1>2. CASE ChildFails(t)
  BY <1>2 DEF ChildFails, EndsWith, Ended, Alive, Places
<1>3. CASE Report(t)
  <2>1. Outcome(t) \in Ended /\ (Outcome(t) = "completed" => t \notin aborted)
    BY DEF Outcome, Ended
  <2> QED
    BY <1>3, <2>1 DEF Report, EndsWith, Alive, Places
<1> QED
  BY <1>1, <1>2, <1>3

\* The times requests ask for are minutes or none.
LEMMA SendTimesAreMinutes == SendTimes \subseteq Minutes
BY BoundsAssumption DEF SendTimes, Minutes

\* Every step keeps the rows of the schedules right.
LEMMA RowsStep ==
  ASSUME TypeOK, RowsRight, [Next]_vars
  PROVE  schedule' \in [Schedules -> Row] /\ RowsRight'
<1>0. /\ now \in Nat /\ SendTimes \subseteq Minutes
      /\ schedule \in [Schedules -> Row]
      /\ \A s \in Schedules : RowRight(schedule[s])
  BY SendTimesAreMinutes DEF TypeOK, RowsRight
<1>1. ASSUME NEW s \in Schedules, NEW row \in Row, RowRight(row),
             schedule' = [schedule EXCEPT ![s] = row]
      PROVE  schedule' \in [Schedules -> Row] /\ RowsRight'
  BY <1>0, <1>1 DEF RowsRight
<1>2. ASSUME NEW s \in Schedules, CreateSchedule(s)
      PROVE  schedule' \in [Schedules -> Row] /\ RowsRight'
  <2>1. PICK enabled \in BOOLEAN, plan \in Plans, sendAt \in SendTimes :
          SetSchedule(s, Created(enabled, plan, sendAt, now))
    BY <1>2 DEF CreateSchedule
  <2>2. plan \in PlanFields /\ sendAt \in Minutes
    BY <1>0, PlansAssumption
  <2> QED
    BY <2>1, <2>2, <1>0, <1>1, CreatedRight DEF SetSchedule
<1>3. ASSUME NEW s \in Schedules, PatchSchedule(s)
      PROVE  schedule' \in [Schedules -> Row] /\ RowsRight'
  <2> DEFINE cur == schedule[s]
  <2>1. PICK changed \in SUBSET {"enabled", "sendAt", "plan"} :
        \E enabled \in IF "enabled" \in changed THEN BOOLEAN ELSE {cur.enabled},
           sendAt \in IF "sendAt" \in changed THEN SendTimes ELSE {cur.sendAt},
           plan \in IF "plan" \in changed THEN Plans ELSE {cur.plan} :
          SetSchedule(s, Updated(cur, changed # {}, enabled, plan, sendAt, now))
    BY <1>3 DEF PatchSchedule
  <2>2. PICK enabled \in IF "enabled" \in changed THEN BOOLEAN ELSE {cur.enabled},
             sendAt \in IF "sendAt" \in changed THEN SendTimes ELSE {cur.sendAt},
             plan \in IF "plan" \in changed THEN Plans ELSE {cur.plan} :
          SetSchedule(s, Updated(cur, changed # {}, enabled, plan, sendAt, now))
    BY <2>1
  <2>3. cur \in Row /\ RowRight(cur)
    BY <1>0
  <2>4. /\ cur.enabled \in BOOLEAN /\ cur.sendAt \in Minutes /\ cur.plan \in PlanFields
    BY <2>3 DEF Row
  <2> HIDE DEF cur
  <2>5. /\ enabled \in BOOLEAN /\ plan \in PlanFields /\ sendAt \in Minutes
        /\ changed = {} => enabled = cur.enabled /\ plan = cur.plan
    BY <2>2, <2>4, <1>0, PlansAssumption
  <2> DEFINE reset == changed # {}
  <2>6. reset \in BOOLEAN /\ (~reset => enabled = cur.enabled /\ plan = cur.plan)
    BY <2>5
  <2>7. SetSchedule(s, Updated(cur, reset, enabled, plan, sendAt, now))
    BY <2>2
  <2> HIDE DEF reset
  <2>8. /\ Updated(cur, reset, enabled, plan, sendAt, now) \in Row
        /\ RowRight(Updated(cur, reset, enabled, plan, sendAt, now))
    BY <2>3, <2>5, <2>6, <1>0, UpdatedRight
  <2> QED
    BY <2>7, <2>8, <1>1 DEF SetSchedule
<1>4. ASSUME NEW s \in Schedules, DeleteSchedule(s)
      PROVE  schedule' \in [Schedules -> Row] /\ RowsRight'
  <2>1. Deleted \in Row /\ RowRight(Deleted)
    BY DEF Deleted, NoRow, Row, RowRight, Minutes, PlanFields
  <2> QED
    BY <1>4, <2>1, <1>1 DEF DeleteSchedule, SetSchedule
<1>5. CASE Tick
  <2>1. schedule' = [s \in Schedules |-> IF s \in DueNow THEN MarkedSent(schedule[s], now)
                                        ELSE schedule[s]]
    BY <1>5 DEF Tick
  <2>2. \A s \in DueNow : MarkedSent(schedule[s], now) \in Row
                         /\ RowRight(MarkedSent(schedule[s], now))
    <3> TAKE s \in DueNow
    <3>1. s \in Schedules /\ schedule[s].enabled
      BY DEF DueNow, DueAt
    <3> QED
      BY <3>1, <1>0, MarkedRight
  <2> QED
    BY <2>1, <2>2, <1>0 DEF RowsRight
<1>6. CASE UNCHANGED schedule
  BY <1>6, <1>0 DEF RowsRight
<1>7. \/ UNCHANGED schedule \/ Tick
      \/ \E s \in Schedules : CreateSchedule(s) \/ PatchSchedule(s) \/ DeleteSchedule(s)
  BY DEF Next, vars, tables, Pass, Crash, PostTask, StopTask, Subscribe, TaskStep,
     BeginTask, Spawn, EndUnstarted, ChildCloses, ChildFails, Report, Finish,
     CrashInReport, CrashInTick
<1> QED
  BY <1>2, <1>3, <1>4, <1>5, <1>6, <1>7

\* What a task that closed is reported as.
LEMMA Outcomes ==
  ASSUME NEW t \in Tasks
  PROVE  Outcome(t) \in Ended /\ (Outcome(t) = "completed" => t \notin aborted)
BY DEF Outcome, Ended

\* Every step keeps the types.
LEMMA TypesStep ==
  ASSUME Inv, [Next]_vars
  PROVE  TypeOK'
<1>0. schedule' \in [Schedules -> Row]
  BY RowsStep DEF Inv
<1> USE DEF Inv, TypeOK, Statuses, Places, Ended, Alive
<1>1. CASE Pass
  BY <1>1, <1>0 DEF Pass, tables, process, watch
<1>2. CASE Tick
  <2>1. PICK by \in [DueNow -> Fresh] :
          /\ owner' = [t \in Tasks |-> IF \E s \in DueNow : by[s] = t
                                      THEN CHOOSE s \in DueNow : by[s] = t ELSE owner[t]]
          /\ status' = [t \in Tasks |-> IF \E s \in DueNow : by[s] = t THEN "running"
                                       ELSE status[t]]
          /\ worker' = [t \in Tasks |-> IF \E s \in DueNow : by[s] = t THEN "snapshot"
                                       ELSE worker[t]]
          /\ run' = [t \in Tasks |-> IF \E s \in DueNow : by[s] = t THEN "started"
                                    ELSE run[t]]
    BY <1>2 DEF Tick
  <2>2. owner' \in [Tasks -> Schedules \cup {NoSchedule}]
    <3>1. DueNow \subseteq Schedules
      BY DEF DueNow
    <3> QED
      BY <2>1, <3>1
  <2>3. /\ status' \in [Tasks -> Statuses] /\ worker' \in [Tasks -> Places]
        /\ run' \in [Tasks -> {"none", "started"} \cup Ended]
    BY <2>1
  <2>4. running' \subseteq Schedules
    BY <1>2 DEF Tick, DueNow
  <2> QED
    BY <1>2, <2>2, <2>3, <2>4, <1>0 DEF Tick, watch
<1>3. CASE Crash
  BY <1>3, <1>0 DEF Crash, Restart, Lost, tables, process, watch
<1>4. ASSUME NEW t \in Tasks, PostTask(t)
      PROVE  TypeOK'
  BY <1>4, <1>0 DEF PostTask, tables, process, watch
<1>5. ASSUME NEW t \in Tasks, StopTask(t)
      PROVE  TypeOK'
  BY <1>5, <1>0 DEF StopTask, tables, process, watch
<1>6. ASSUME NEW t \in Tasks, Subscribe(t)
      PROVE  TypeOK'
  BY <1>6, <1>0 DEF Subscribe, tables, process, watch
<1>7. ASSUME NEW t \in Tasks, BeginTask(t)
      PROVE  TypeOK'
  BY <1>7, <1>0 DEF BeginTask, tables, process, watch
<1>8. ASSUME NEW t \in Tasks, Spawn(t)
      PROVE  TypeOK'
  BY <1>8, <1>0 DEF Spawn, tables, process, watch
<1>9. ASSUME NEW t \in Tasks, ChildCloses(t)
      PROVE  TypeOK'
  BY <1>9, <1>0 DEF ChildCloses, tables, process, watch
<1>10. ASSUME NEW t \in Tasks, NEW e \in Ended, EndsWith(t, e)
      PROVE  TypeOK'
  BY <1>10, <1>0 DEF EndsWith, Finish, tables, process, watch
<1>11. ASSUME NEW t \in Tasks, CrashInReport(t)
      PROVE  TypeOK'
  BY <1>11, <1>0, Outcomes DEF CrashInReport, Restart, Lost, tables, process, watch
<1>12. ASSUME NEW s \in Schedules, CreateSchedule(s)
      PROVE  TypeOK'
  BY <1>12, <1>0 DEF CreateSchedule, SetSchedule, tables, process, watch
<1>13. ASSUME NEW s \in Schedules, PatchSchedule(s)
      PROVE  TypeOK'
  BY <1>13, <1>0 DEF PatchSchedule, SetSchedule, tables, process, watch
<1>14. ASSUME NEW s \in Schedules, DeleteSchedule(s)
      PROVE  TypeOK'
  BY <1>14, <1>0 DEF DeleteSchedule, SetSchedule, tables, process, watch
<1>15. ASSUME NEW s \in Schedules, NEW t \in Tasks, CrashInTick(s, t)
      PROVE  TypeOK'
  BY <1>15, <1>0 DEF CrashInTick, Restart, Lost, tables, process, watch
<1>16. CASE UNCHANGED vars
  BY <1>16 DEF vars, tables, process, watch
<1> QED
  BY <1>1, <1>2, <1>3, <1>4, <1>5, <1>6, <1>7, <1>8, <1>9, <1>10, <1>11, <1>12, <1>13, <1>14, <1>15, <1>16, Ends DEF Next, TaskStep

\* What a tick does to the tasks it starts and to the others.
StartedBy(by) ==
  /\ \A s \in DueNow : /\ by[s] \in Tasks /\ status[by[s]] = "absent"
                        /\ status'[by[s]] = "running" /\ worker'[by[s]] = "snapshot"
                        /\ run'[by[s]] = "started" /\ owner'[by[s]] = s
  /\ \A t \in Tasks : \/ \E s \in DueNow : by[s] = t
                      \/ /\ status'[t] = status[t] /\ worker'[t] = worker[t]
                         /\ run'[t] = run[t] /\ owner'[t] = owner[t]

\* A tick gives every due schedule a task of its own.
LEMMA Ticked ==
  ASSUME TypeOK, Tick
  PROVE  \E by \in [DueNow -> Fresh] : Injective(by) /\ StartedBy(by)
<1>1. PICK by \in [DueNow -> Fresh] :
        /\ Injective(by)
        /\ owner' = [t \in Tasks |-> IF \E s \in DueNow : by[s] = t
                                    THEN CHOOSE s \in DueNow : by[s] = t ELSE owner[t]]
        /\ status' = [t \in Tasks |-> IF \E s \in DueNow : by[s] = t THEN "running"
                                     ELSE status[t]]
        /\ worker' = [t \in Tasks |-> IF \E s \in DueNow : by[s] = t THEN "snapshot"
                                     ELSE worker[t]]
        /\ run' = [t \in Tasks |-> IF \E s \in DueNow : by[s] = t THEN "started"
                                  ELSE run[t]]
  BY DEF Tick
<1>2. ASSUME NEW s \in DueNow
      PROVE  /\ by[s] \in Tasks /\ status[by[s]] = "absent"
             /\ status'[by[s]] = "running" /\ worker'[by[s]] = "snapshot"
             /\ run'[by[s]] = "started" /\ owner'[by[s]] = s
  <2>1. by[s] \in Tasks /\ status[by[s]] = "absent"
    BY DEF Fresh
  <2>2. \A r \in DueNow : by[r] = by[s] => r = s
    BY <1>1 DEF Injective
  <2>3. (CHOOSE r \in DueNow : by[r] = by[s]) = s
    BY <2>2
  <2> QED
    BY <1>1, <2>1, <2>3
<1>3. ASSUME NEW t \in Tasks, ~ \E s \in DueNow : by[s] = t
      PROVE  /\ status'[t] = status[t] /\ worker'[t] = worker[t]
             /\ run'[t] = run[t] /\ owner'[t] = owner[t]
  BY <1>1, <1>3
<1>4. StartedBy(by)
  BY <1>2, <1>3 DEF StartedBy
<1> QED
  BY <1>1, <1>4

\* Every step keeps places and rows of the tasks in agreement.
LEMMA PlacesStep ==
  ASSUME Inv, [Next]_vars
  PROVE  PlacesAgree'
<1> USE DEF Inv, PlacesAgree, TypeOK, Statuses, Places, Ended, Alive
<1>1. CASE Pass
  BY <1>1, NamesAssumption DEF Pass, tables, process, watch, Fresh
<1>2. CASE Tick
  BY <1>2, NamesAssumption DEF Tick, tables, process, watch, Fresh
<1>3. CASE Crash
  BY <1>3, NamesAssumption DEF Crash, Restart, Lost, tables, process, watch, Fresh
<1>4. ASSUME NEW t \in Tasks, PostTask(t)
      PROVE  PlacesAgree'
  BY <1>4, NamesAssumption DEF PostTask, tables, process, watch, Fresh
<1>5. ASSUME NEW t \in Tasks, StopTask(t)
      PROVE  PlacesAgree'
  BY <1>5, NamesAssumption DEF StopTask, tables, process, watch, Fresh
<1>6. ASSUME NEW t \in Tasks, Subscribe(t)
      PROVE  PlacesAgree'
  BY <1>6, NamesAssumption DEF Subscribe, tables, process, watch, Fresh
<1>7. ASSUME NEW t \in Tasks, BeginTask(t)
      PROVE  PlacesAgree'
  BY <1>7, NamesAssumption DEF BeginTask, tables, process, watch, Fresh
<1>8. ASSUME NEW t \in Tasks, Spawn(t)
      PROVE  PlacesAgree'
  BY <1>8, NamesAssumption DEF Spawn, tables, process, watch, Fresh
<1>9. ASSUME NEW t \in Tasks, ChildCloses(t)
      PROVE  PlacesAgree'
  BY <1>9, NamesAssumption DEF ChildCloses, tables, process, watch, Fresh
<1>10. ASSUME NEW t \in Tasks, NEW e \in Ended, EndsWith(t, e)
      PROVE  PlacesAgree'
  BY <1>10, NamesAssumption DEF EndsWith, Finish, tables, process, watch, Fresh
<1>11. ASSUME NEW t \in Tasks, CrashInReport(t)
      PROVE  PlacesAgree'
  BY <1>11, NamesAssumption, Outcomes DEF CrashInReport, Restart, Lost, tables, process, watch, Fresh
<1>12. ASSUME NEW s \in Schedules, CreateSchedule(s)
      PROVE  PlacesAgree'
  BY <1>12, NamesAssumption DEF CreateSchedule, SetSchedule, tables, process, watch, Fresh
<1>13. ASSUME NEW s \in Schedules, PatchSchedule(s)
      PROVE  PlacesAgree'
  BY <1>13, NamesAssumption DEF PatchSchedule, SetSchedule, tables, process, watch, Fresh
<1>14. ASSUME NEW s \in Schedules, DeleteSchedule(s)
      PROVE  PlacesAgree'
  BY <1>14, NamesAssumption DEF DeleteSchedule, SetSchedule, tables, process, watch, Fresh
<1>15. ASSUME NEW s \in Schedules, NEW t \in Tasks, CrashInTick(s, t)
      PROVE  PlacesAgree'
  BY <1>15, NamesAssumption DEF CrashInTick, Restart, Lost, tables, process, watch, Fresh
<1>16. CASE UNCHANGED vars
  BY <1>16 DEF vars, tables, process, watch, Fresh
<1> QED
  BY <1>1, <1>2, <1>3, <1>4, <1>5, <1>6, <1>7, <1>8, <1>9, <1>10, <1>11, <1>12, <1>13, <1>14, <1>15, <1>16, Ends DEF Next, TaskStep

\* Every step keeps a stopped task from completing.
LEMMA StoppedStep ==
  ASSUME Inv, [Next]_vars
  PROVE  StoppedNotCompleted'
<1> USE DEF Inv, PlacesAgree, StoppedNotCompleted, TypeOK, Statuses, Places, Ended, Alive
<1>1. CASE Pass
  BY <1>1 DEF Pass, tables, process, watch, Fresh
<1>2. CASE Tick
  BY <1>2 DEF Tick, tables, process, watch, Fresh
<1>3. CASE Crash
  BY <1>3 DEF Crash, Restart, Lost, tables, process, watch, Fresh
<1>4. ASSUME NEW t \in Tasks, PostTask(t)
      PROVE  StoppedNotCompleted'
  BY <1>4 DEF PostTask, tables, process, watch, Fresh
<1>5. ASSUME NEW t \in Tasks, StopTask(t)
      PROVE  StoppedNotCompleted'
  BY <1>5 DEF StopTask, tables, process, watch, Fresh
<1>6. ASSUME NEW t \in Tasks, Subscribe(t)
      PROVE  StoppedNotCompleted'
  BY <1>6 DEF Subscribe, tables, process, watch, Fresh
<1>7. ASSUME NEW t \in Tasks, BeginTask(t)
      PROVE  StoppedNotCompleted'
  BY <1>7 DEF BeginTask, tables, process, watch, Fresh
<1>8. ASSUME NEW t \in Tasks, Spawn(t)
      PROVE  StoppedNotCompleted'
  BY <1>8 DEF Spawn, tables, process, watch, Fresh
<1>9. ASSUME NEW t \in Tasks, ChildCloses(t)
      PROVE  StoppedNotCompleted'
  BY <1>9 DEF ChildCloses, tables, process, watch, Fresh
<1>10. ASSUME NEW t \in Tasks, NEW e \in Ended, EndsWith(t, e)
      PROVE  StoppedNotCompleted'
  BY <1>10 DEF EndsWith, Finish, tables, process, watch, Fresh
<1>11. ASSUME NEW t \in Tasks, CrashInReport(t)
      PROVE  StoppedNotCompleted'
  BY <1>11, Outcomes DEF CrashInReport, Restart, Lost, tables, process, watch, Fresh
<1>12. ASSUME NEW s \in Schedules, CreateSchedule(s)
      PROVE  StoppedNotCompleted'
  BY <1>12 DEF CreateSchedule, SetSchedule, tables, process, watch, Fresh
<1>13. ASSUME NEW s \in Schedules, PatchSchedule(s)
      PROVE  StoppedNotCompleted'
  BY <1>13 DEF PatchSchedule, SetSchedule, tables, process, watch, Fresh
<1>14. ASSUME NEW s \in Schedules, DeleteSchedule(s)
      PROVE  StoppedNotCompleted'
  BY <1>14 DEF DeleteSchedule, SetSchedule, tables, process, watch, Fresh
<1>15. ASSUME NEW s \in Schedules, NEW t \in Tasks, CrashInTick(s, t)
      PROVE  StoppedNotCompleted'
  BY <1>15 DEF CrashInTick, Restart, Lost, tables, process, watch, Fresh
<1>16. CASE UNCHANGED vars
  BY <1>16 DEF vars, tables, process, watch, Fresh
<1> QED
  BY <1>1, <1>2, <1>3, <1>4, <1>5, <1>6, <1>7, <1>8, <1>9, <1>10, <1>11, <1>12, <1>13, <1>14, <1>15, <1>16, Ends DEF Next, TaskStep

\* Every step keeps the marks of running schedules exact.
LEMMA RunningStep ==
  ASSUME Inv, [Next]_vars
  PROVE  RunningIsLive'
<1>0. Tick => \E by \in [DueNow -> Fresh] : Injective(by) /\ StartedBy(by)
  BY Ticked DEF Inv
<1> USE DEF Inv, PlacesAgree, RunningIsLive, TypeOK, Statuses, Places, Ended, Alive
<1>1. CASE Pass
  BY <1>1, NamesAssumption DEF Pass, tables, process, watch, Fresh
<1>2. CASE Tick
  <2>1. PICK by \in [DueNow -> Fresh] : Injective(by) /\ StartedBy(by)
    BY <1>2, <1>0
  <2>2. /\ DueNow \subseteq Schedules /\ DueNow \cap running = {}
        /\ running' = running \cup DueNow
    BY <1>2 DEF Tick, DueNow
  <2>3. \A t \in Tasks : worker'[t] \in Alive /\ owner'[t] # NoSchedule =>
          \/ owner'[t] \in DueNow /\ by[owner'[t]] = t
          \/ worker[t] \in Alive /\ owner[t] = owner'[t] /\ owner[t] \in running
    BY <2>1 DEF StartedBy
  <2>4. \A t \in Tasks : worker[t] \in Alive =>
          worker'[t] = worker[t] /\ owner'[t] = owner[t]
    BY <2>1 DEF StartedBy
  <2>5. \A s \in DueNow : /\ by[s] \in Tasks /\ worker'[by[s]] \in Alive
                          /\ owner'[by[s]] = s /\ s # NoSchedule
    BY <2>1, <2>2, NamesAssumption DEF StartedBy
  <2>6. running' = {owner'[t] : t \in {u \in Tasks : worker'[u] \in Alive /\ owner'[u] # NoSchedule}}
    BY <2>2, <2>3, <2>4, <2>5
  <2>7. \A t, u \in Tasks : worker'[t] \in Alive /\ worker'[u] \in Alive
                            /\ owner'[t] = owner'[u] /\ owner'[t] # NoSchedule => t = u
    BY <2>2, <2>3
  <2> QED
    BY <2>6, <2>7
<1>3. CASE Crash
  BY <1>3, NamesAssumption DEF Crash, Restart, Lost, tables, process, watch, Fresh
<1>4. ASSUME NEW t \in Tasks, PostTask(t)
      PROVE  RunningIsLive'
  BY <1>4, NamesAssumption DEF PostTask, tables, process, watch, Fresh
<1>5. ASSUME NEW t \in Tasks, StopTask(t)
      PROVE  RunningIsLive'
  BY <1>5, NamesAssumption DEF StopTask, tables, process, watch, Fresh
<1>6. ASSUME NEW t \in Tasks, Subscribe(t)
      PROVE  RunningIsLive'
  BY <1>6, NamesAssumption DEF Subscribe, tables, process, watch, Fresh
<1>7. ASSUME NEW t \in Tasks, BeginTask(t)
      PROVE  RunningIsLive'
  BY <1>7, NamesAssumption DEF BeginTask, tables, process, watch, Fresh
<1>8. ASSUME NEW t \in Tasks, Spawn(t)
      PROVE  RunningIsLive'
  BY <1>8, NamesAssumption DEF Spawn, tables, process, watch, Fresh
<1>9. ASSUME NEW t \in Tasks, ChildCloses(t)
      PROVE  RunningIsLive'
  BY <1>9, NamesAssumption DEF ChildCloses, tables, process, watch, Fresh
<1>10. ASSUME NEW t \in Tasks, NEW e \in Ended, EndsWith(t, e)
      PROVE  RunningIsLive'
  BY <1>10, NamesAssumption DEF EndsWith, Finish, tables, process, watch, Fresh
<1>11. ASSUME NEW t \in Tasks, CrashInReport(t)
      PROVE  RunningIsLive'
  BY <1>11, NamesAssumption, Outcomes DEF CrashInReport, Restart, Lost, tables, process, watch, Fresh
<1>12. ASSUME NEW s \in Schedules, CreateSchedule(s)
      PROVE  RunningIsLive'
  BY <1>12, NamesAssumption DEF CreateSchedule, SetSchedule, tables, process, watch, Fresh
<1>13. ASSUME NEW s \in Schedules, PatchSchedule(s)
      PROVE  RunningIsLive'
  BY <1>13, NamesAssumption DEF PatchSchedule, SetSchedule, tables, process, watch, Fresh
<1>14. ASSUME NEW s \in Schedules, DeleteSchedule(s)
      PROVE  RunningIsLive'
  BY <1>14, NamesAssumption DEF DeleteSchedule, SetSchedule, tables, process, watch, Fresh
<1>15. ASSUME NEW s \in Schedules, NEW t \in Tasks, CrashInTick(s, t)
      PROVE  RunningIsLive'
  BY <1>15, NamesAssumption DEF CrashInTick, Restart, Lost, tables, process, watch, Fresh
<1>16. CASE UNCHANGED vars
  BY <1>16 DEF vars, tables, process, watch, Fresh
<1> QED
  BY <1>1, <1>2, <1>3, <1>4, <1>5, <1>6, <1>7, <1>8, <1>9, <1>10, <1>11, <1>12, <1>13, <1>14, <1>15, <1>16, Ends DEF Next, TaskStep

\* Every step keeps the tables true.
LEMMA TablesStep ==
  ASSUME Inv, [Next]_vars
  PROVE  TablesAgree'
<1>0. Tick => \E by \in [DueNow -> Fresh] : Injective(by) /\ StartedBy(by)
  BY Ticked DEF Inv
<1> USE DEF Inv, PlacesAgree, TablesAgree, TypeOK, Statuses, Places, Ended, Alive
<1>1. CASE Pass
  BY <1>1, NamesAssumption DEF Pass, tables, process, watch, Fresh
<1>2. CASE Tick
  <2>1. PICK by \in [DueNow -> Fresh] : StartedBy(by)
    BY <1>2, <1>0
  <2>2. \A s \in DueNow : s \in Schedules /\ s # NoSchedule
    BY NamesAssumption DEF DueNow
  <2>3. UNCHANGED controllers
    BY <1>2 DEF Tick
  <2> QED
    BY <2>1, <2>2, <2>3 DEF StartedBy
<1>3. CASE Crash
  BY <1>3, NamesAssumption DEF Crash, Restart, Lost, tables, process, watch, Fresh
<1>4. ASSUME NEW t \in Tasks, PostTask(t)
      PROVE  TablesAgree'
  BY <1>4, NamesAssumption DEF PostTask, tables, process, watch, Fresh
<1>5. ASSUME NEW t \in Tasks, StopTask(t)
      PROVE  TablesAgree'
  BY <1>5, NamesAssumption DEF StopTask, tables, process, watch, Fresh
<1>6. ASSUME NEW t \in Tasks, Subscribe(t)
      PROVE  TablesAgree'
  BY <1>6, NamesAssumption DEF Subscribe, tables, process, watch, Fresh
<1>7. ASSUME NEW t \in Tasks, BeginTask(t)
      PROVE  TablesAgree'
  BY <1>7, NamesAssumption DEF BeginTask, tables, process, watch, Fresh
<1>8. ASSUME NEW t \in Tasks, Spawn(t)
      PROVE  TablesAgree'
  BY <1>8, NamesAssumption DEF Spawn, tables, process, watch, Fresh
<1>9. ASSUME NEW t \in Tasks, ChildCloses(t)
      PROVE  TablesAgree'
  BY <1>9, NamesAssumption DEF ChildCloses, tables, process, watch, Fresh
<1>10. ASSUME NEW t \in Tasks, NEW e \in Ended, EndsWith(t, e)
      PROVE  TablesAgree'
  BY <1>10, NamesAssumption DEF EndsWith, Finish, tables, process, watch, Fresh
<1>11. ASSUME NEW t \in Tasks, CrashInReport(t)
      PROVE  TablesAgree'
  BY <1>11, NamesAssumption, Outcomes DEF CrashInReport, Restart, Lost, tables, process, watch, Fresh
<1>12. ASSUME NEW s \in Schedules, CreateSchedule(s)
      PROVE  TablesAgree'
  BY <1>12, NamesAssumption DEF CreateSchedule, SetSchedule, tables, process, watch, Fresh
<1>13. ASSUME NEW s \in Schedules, PatchSchedule(s)
      PROVE  TablesAgree'
  BY <1>13, NamesAssumption DEF PatchSchedule, SetSchedule, tables, process, watch, Fresh
<1>14. ASSUME NEW s \in Schedules, DeleteSchedule(s)
      PROVE  TablesAgree'
  BY <1>14, NamesAssumption DEF DeleteSchedule, SetSchedule, tables, process, watch, Fresh
<1>15. ASSUME NEW s \in Schedules, NEW t \in Tasks, CrashInTick(s, t)
      PROVE  TablesAgree'
  BY <1>15, NamesAssumption DEF CrashInTick, Restart, Lost, tables, process, watch, Fresh
<1>16. CASE UNCHANGED vars
  BY <1>16 DEF vars, tables, process, watch, Fresh
<1> QED
  BY <1>1, <1>2, <1>3, <1>4, <1>5, <1>6, <1>7, <1>8, <1>9, <1>10, <1>11, <1>12, <1>13, <1>14, <1>15, <1>16, Ends DEF Next, TaskStep

\* Every step lets the subscriber hear the end.
LEMMA HeardStep ==
  ASSUME Inv, [Next]_vars
  PROVE  EndIsHeard'
<1> USE DEF Inv, PlacesAgree, EndIsHeard, TypeOK, Statuses, Places, Ended, Alive
<1>1. CASE Pass
  BY <1>1, NamesAssumption DEF Pass, tables, process, watch, Fresh
<1>2. CASE Tick
  BY <1>2, NamesAssumption DEF Tick, tables, process, watch, Fresh
<1>3. CASE Crash
  BY <1>3, NamesAssumption DEF Crash, Restart, Lost, tables, process, watch, Fresh
<1>4. ASSUME NEW t \in Tasks, PostTask(t)
      PROVE  EndIsHeard'
  BY <1>4, NamesAssumption DEF PostTask, tables, process, watch, Fresh
<1>5. ASSUME NEW t \in Tasks, StopTask(t)
      PROVE  EndIsHeard'
  BY <1>5, NamesAssumption DEF StopTask, tables, process, watch, Fresh
<1>6. ASSUME NEW t \in Tasks, Subscribe(t)
      PROVE  EndIsHeard'
  BY <1>6, NamesAssumption DEF Subscribe, tables, process, watch, Fresh
<1>7. ASSUME NEW t \in Tasks, BeginTask(t)
      PROVE  EndIsHeard'
  BY <1>7, NamesAssumption DEF BeginTask, tables, process, watch, Fresh
<1>8. ASSUME NEW t \in Tasks, Spawn(t)
      PROVE  EndIsHeard'
  BY <1>8, NamesAssumption DEF Spawn, tables, process, watch, Fresh
<1>9. ASSUME NEW t \in Tasks, ChildCloses(t)
      PROVE  EndIsHeard'
  BY <1>9, NamesAssumption DEF ChildCloses, tables, process, watch, Fresh
<1>10. ASSUME NEW t \in Tasks, NEW e \in Ended, EndsWith(t, e)
      PROVE  EndIsHeard'
  BY <1>10, NamesAssumption DEF EndsWith, Finish, tables, process, watch, Fresh
<1>11. ASSUME NEW t \in Tasks, CrashInReport(t)
      PROVE  EndIsHeard'
  BY <1>11, NamesAssumption, Outcomes DEF CrashInReport, Restart, Lost, tables, process, watch, Fresh
<1>12. ASSUME NEW s \in Schedules, CreateSchedule(s)
      PROVE  EndIsHeard'
  BY <1>12, NamesAssumption DEF CreateSchedule, SetSchedule, tables, process, watch, Fresh
<1>13. ASSUME NEW s \in Schedules, PatchSchedule(s)
      PROVE  EndIsHeard'
  BY <1>13, NamesAssumption DEF PatchSchedule, SetSchedule, tables, process, watch, Fresh
<1>14. ASSUME NEW s \in Schedules, DeleteSchedule(s)
      PROVE  EndIsHeard'
  BY <1>14, NamesAssumption DEF DeleteSchedule, SetSchedule, tables, process, watch, Fresh
<1>15. ASSUME NEW s \in Schedules, NEW t \in Tasks, CrashInTick(s, t)
      PROVE  EndIsHeard'
  BY <1>15, NamesAssumption DEF CrashInTick, Restart, Lost, tables, process, watch, Fresh
<1>16. CASE UNCHANGED vars
  BY <1>16 DEF vars, tables, process, watch, Fresh
<1> QED
  BY <1>1, <1>2, <1>3, <1>4, <1>5, <1>6, <1>7, <1>8, <1>9, <1>10, <1>11, <1>12, <1>13, <1>14, <1>15, <1>16, Ends DEF Next, TaskStep
-----------------------------------------------------------------------------
(* The theorems of the tables and the tasks.                               *)

\* The service starts in the invariant.
LEMMA Begins == Init => Inv
<1> SUFFICES ASSUME Init PROVE Inv
  OBVIOUS
<1> USE DEF Init
<1>1. Unused \in Row /\ RowRight(Unused)
  BY DEF Unused, NoRow, Row, RowRight, Minutes, PlanFields
<1>2. TypeOK
  BY <1>1 DEF TypeOK, Statuses, Places, Ended
<1>3. RowsRight
  BY <1>1 DEF RowsRight
<1>4. PlacesAgree /\ StoppedNotCompleted /\ RunningIsLive /\ TablesAgree /\ EndIsHeard
  BY NamesAssumption DEF PlacesAgree, StoppedNotCompleted, RunningIsLive, TablesAgree,
     EndIsHeard, Alive, Places, Ended
<1> QED
  BY <1>2, <1>3, <1>4 DEF Inv

\* Every step keeps the invariant.
LEMMA Keeps == Inv /\ [Next]_vars => Inv'
<1> SUFFICES ASSUME Inv, [Next]_vars PROVE Inv'
  OBVIOUS
<1>1. RowsRight'
  BY RowsStep DEF Inv
<1> QED
  BY <1>1, TypesStep, PlacesStep, StoppedStep, RunningStep, TablesStep, HeardStep DEF Inv

\* Inv is an invariant of the service.
LEMMA Invariance == Spec => []Inv
  BY Begins, Keeps, PTL DEF Spec

\* Every row, task, mark and subscription stays in its set, whatever requests,
\* ticks and crashes do.
THEOREM NodeTypes == Spec => []TypeOK
<1>1. Inv => TypeOK
  BY DEF Inv
<1> QED
  BY <1>1, Invariance, PTL

\* A stop that was accepted never ends in success, for any tasks and schedules.
THEOREM StopIsFinal == Spec => []StoppedNotCompleted
<1>1. Inv => StoppedNotCompleted
  BY DEF Inv
<1> QED
  BY <1>1, Invariance, PTL

\* runningSchedules is exactly the schedules with a live task, and no schedule
\* has two, also when several are due in one tick.
THEOREM RunningIsExact == Spec => []RunningIsLive
<1>1. Inv => RunningIsLive
  BY DEF Inv
<1> QED
  BY <1>1, Invariance, PTL

\* The tables agree with the process, but for what a crash leaves behind.
THEOREM TablesAreTrue == Spec => []TablesAgree
<1>1. Inv => TablesAgree
  BY DEF Inv
<1> QED
  BY <1>1, Invariance, PTL

\* A subscriber hears the end of its task, unless it came after an interruption.
THEOREM SubscriberHears == Spec => []EndIsHeard
<1>1. Inv => EndIsHeard
  BY DEF Inv
<1> QED
  BY <1>1, Invariance, PTL
-----------------------------------------------------------------------------
(* The service implements the plan of its schedules.                       *)

\* A new database maps to a plan without firings.
LEMMA PlanBegins == Init => Plan!Init
BY NamesAssumption DEF Init, Plan!Init, Unused, NoRow, NoTime, Plan!NoTime

\* The plan's variables, as the service has them.
PNext(s) == IF schedule[s].enabled THEN schedule[s].next ELSE NoTime
PLeft(s) == IF ~schedule[s].enabled THEN 0
            ELSE IF IsFixed(schedule[s].plan) THEN -1 ELSE schedule[s].remaining

\* The plan's variables keep their types.
LEMMA PlanTypes ==
  ASSUME TypeOK', UNCHANGED now
  PROVE  Plan!Types
<1>1. ASSUME NEW s \in Schedules
      PROVE  /\ PNext(s)' \in Nat \cup {Plan!NoTime}
             /\ PLeft(s)' \in Nat \cup {Plan!Unlimited}
  <2>1. schedule'[s] \in Row
    BY DEF TypeOK
  <2> QED
    BY <2>1 DEF PNext, PLeft, Row, Minutes, NoTime, Plan!NoTime, Plan!Unlimited
<1> QED
  BY <1>1 DEF Plan!Types, PNext, PLeft

\* A request that writes one row changes one plan.
LEMMA ReplanStep ==
  ASSUME TypeOK, TypeOK', NEW s \in Schedules, NEW row, UNCHANGED <<now, owner>>,
         schedule' = [schedule EXCEPT ![s] = row]
  PROVE  Plan!Replan(s)
<1>1. \A r \in Schedules \ {s} : schedule'[r] = schedule[r]
  BY DEF TypeOK
<1>2. \A r \in Schedules \ {s} : Plan!Keeps(r)
  BY <1>1 DEF Plan!Keeps
<1> QED
  BY <1>2, PlanTypes DEF Plan!Replan

\* A tick fires the due schedules.
LEMMA FireStep ==
  ASSUME Inv, TypeOK', Tick, NEW F, F = DueNow
  PROVE  Plan!Fire(F)
<1>0. /\ TypeOK /\ UNCHANGED now /\ now \in Nat /\ DueNow \subseteq Schedules
      /\ schedule \in [Schedules -> Row] /\ RowsRight
  BY DEF Inv, Tick, TypeOK, DueNow
<1>1. PICK by \in [DueNow -> Fresh] : Injective(by) /\ StartedBy(by)
  BY <1>0, Ticked
<1>2. schedule' = [s \in Schedules |-> IF s \in DueNow THEN MarkedSent(schedule[s], now)
                                      ELSE schedule[s]]
  BY DEF Tick
<1>3. by \in [DueNow -> Tasks] /\ \A s, r \in DueNow : s # r => by[s] # by[r]
  BY <1>1 DEF Injective, Fresh
<1>4. ASSUME NEW s \in DueNow
      PROVE  Plan!Uses(s, by[s])
  <2> DEFINE cur == schedule[s]
             new == schedule'[s]
  <2>1. /\ s \in Schedules /\ cur \in Row /\ RowRight(cur) /\ new = MarkedSent(cur, now)
        /\ cur.enabled /\ cur.next # NoTime /\ cur.next <= now
    BY <1>0, <1>2 DEF DueNow, DueAt, RowsRight
  <2>2. /\ new.plan = cur.plan /\ new \in Row
        /\ IsFixed(cur.plan) => new.enabled /\ new.next > now
        /\ ~IsFixed(cur.plan) => /\ new.remaining = cur.remaining - 1
                                 /\ new.enabled <=> new.remaining > 0
                                 /\ new.enabled => new.next > now
    BY <2>1, <1>0, MarkedRight
  <2>3. /\ cur.remaining \in Nat /\ new.remaining \in Nat
        /\ cur.next \in Minutes /\ new.next \in Minutes
        /\ ~IsFixed(cur.plan) => cur.remaining >= 1
    BY <2>1, <2>2 DEF Row, RowRight
  <2>4. /\ PNext(s) = cur.next
        /\ PLeft(s) = IF IsFixed(cur.plan) THEN -1 ELSE cur.remaining
        /\ PNext(s)' = IF new.enabled THEN new.next ELSE NoTime
        /\ PLeft(s)' = IF ~new.enabled THEN 0
                        ELSE IF IsFixed(cur.plan) THEN -1 ELSE new.remaining
    BY <2>1, <2>2 DEF PNext, PLeft
  <2> HIDE DEF cur, new
  <2>5. PNext(s) # NoTime /\ PNext(s) <= now /\ PLeft(s) # 0
    BY <2>1, <2>3, <2>4
  <2>6. PLeft(s)' = IF PLeft(s) = -1 THEN -1 ELSE PLeft(s) - 1
    BY <2>2, <2>3, <2>4
  <2>7. IF PLeft(s)' = 0 THEN PNext(s)' = NoTime ELSE PNext(s)' > now
    BY <2>2, <2>3, <2>4
  <2>8. \A r \in Schedules : owner[by[s]] # r
    BY <1>1, NamesAssumption DEF StartedBy, Inv, PlacesAgree
  <2>9. {t \in Tasks : owner'[t] = s} = {t \in Tasks : owner[t] = s} \cup {by[s]}
    <3>1. owner'[by[s]] = s /\ by[s] \in Tasks
      BY <1>1 DEF StartedBy
    <3>2. \A t \in Tasks : owner[t] = s => owner'[t] = s
      BY <1>1, <2>1, NamesAssumption DEF StartedBy, Inv, PlacesAgree
    <3>3. \A t \in Tasks : owner'[t] = s => owner[t] = s \/ t = by[s]
      BY <1>1 DEF StartedBy
    <3> QED
      BY <3>1, <3>2, <3>3
  <2> QED
    BY <2>1, <2>5, <2>6, <2>7, <2>8, <2>9
       DEF Plan!Uses, Plan!Due, Plan!Unsent, Plan!NoTime, Plan!Unlimited, NoTime, PNext, PLeft
<1>5. ASSUME NEW s \in Schedules \ DueNow
      PROVE  Plan!Keeps(s)
  <2>1. schedule'[s] = schedule[s]
    BY <1>0, <1>2
  <2>2. \A t \in Tasks : owner'[t] = s <=> owner[t] = s
    BY <1>1, NamesAssumption DEF StartedBy, Inv, PlacesAgree
  <2> QED
    BY <2>1, <2>2 DEF Plan!Keeps
<1> QED
  BY <1>0, <1>3, <1>4, <1>5, PlanTypes DEF Plan!Fire

\* A death inside a tick fires a slot that stays due.
LEMMA TornStep ==
  ASSUME Inv, NEW s \in Schedules, NEW t \in Tasks, CrashInTick(s, t)
  PROVE  Plan!FireTorn(s)
<1>1. /\ UNCHANGED <<now, schedule>> /\ owner' = [owner EXCEPT ![t] = s]
      /\ schedule[s].enabled /\ schedule[s].next # NoTime /\ schedule[s].next <= now
      /\ owner[t] = NoSchedule /\ owner \in [Tasks -> Schedules \cup {NoSchedule}]
  BY DEF CrashInTick, Restart, DueNow, DueAt, Inv, PlacesAgree, TypeOK
<1>2. Plan!Due(s)
  BY <1>1 DEF Plan!Due, Plan!NoTime, NoTime
<1>3. Plan!Unsent(t)
  BY <1>1, NamesAssumption DEF Plan!Unsent
<1>4. [r \in Schedules |-> {u \in Tasks : owner'[u] = r}]
        = [[r \in Schedules |-> {u \in Tasks : owner[u] = r}] EXCEPT ![s] = @ \cup {t}]
  <2> DEFINE f == [r \in Schedules |-> {u \in Tasks : owner[u] = r}]
             g == [r \in Schedules |-> {u \in Tasks : owner'[u] = r}]
  <2>1. \A u \in Tasks : owner'[u] = IF u = t THEN s ELSE owner[u]
    BY <1>1
  <2>2. \A r \in Schedules \ {s} : g[r] = f[r]
    BY <2>1, <1>1, NamesAssumption
  <2>3. g[s] = f[s] \cup {t}
    BY <2>1
  <2>4. DOMAIN f = Schedules /\ DOMAIN g = Schedules /\ f = [r \in Schedules |-> f[r]]
        /\ g = [r \in Schedules |-> g[r]]
    OBVIOUS
  <2> HIDE DEF f, g
  <2>5. g = [f EXCEPT ![s] = @ \cup {t}]
    BY <2>2, <2>3, <2>4
  <2> QED
    BY <2>5 DEF f, g
<1> QED
  BY <1>1, <1>2, <1>3, <1>4 DEF Plan!FireTorn

\* Every step is a step of the plan or leaves it alone.
LEMMA StepImplements ==
  ASSUME Inv, [Next]_vars, Inv'
  PROVE  [Plan!Next]_(Plan!planVars)
<1>0. TypeOK /\ TypeOK'
  BY DEF Inv
<1>1. CASE UNCHANGED <<now, schedule, owner>>
  BY <1>1 DEF Plan!planVars
<1>2. CASE Pass
  BY <1>2 DEF Pass, tables, Plan!Next, Plan!Pass
<1>3. ASSUME NEW s \in Schedules, CreateSchedule(s) \/ PatchSchedule(s) \/ DeleteSchedule(s)
      PROVE  Plan!Replan(s)
  <2>1. PICK row : SetSchedule(s, row)
    BY <1>3 DEF CreateSchedule, PatchSchedule, DeleteSchedule
  <2> QED
    BY <2>1, <1>0, ReplanStep DEF SetSchedule
<1>4. CASE Tick
  <2>1. PICK F \in SUBSET Schedules : F = DueNow
    BY DEF DueNow
  <2>2. Plan!Fire(F)
    BY <2>1, <1>4, <1>0, FireStep
  <2> QED
    BY <2>2 DEF Plan!Next
<1>5. ASSUME NEW s \in Schedules, NEW t \in Tasks, CrashInTick(s, t)
      PROVE  Plan!FireTorn(s)
  BY <1>5, TornStep
<1>6. \/ UNCHANGED <<now, schedule, owner>> \/ Pass \/ Tick
      \/ \E s \in Schedules : CreateSchedule(s) \/ PatchSchedule(s) \/ DeleteSchedule(s)
      \/ \E s \in Schedules, t \in Tasks : CrashInTick(s, t)
  BY DEF Next, vars, tables, Crash, Restart, PostTask, StopTask, Subscribe, TaskStep,
     BeginTask, Spawn, EndUnstarted, ChildCloses, ChildFails, Report, Finish,
     CrashInReport
<1> QED
  BY <1>1, <1>2, <1>3, <1>4, <1>5, <1>6 DEF Plan!Next

\* Every step of the service is a step of the plan or none of it: a firing only
\* when its slot has come, by one new task, using up the slot and one of the
\* firings left, for any number of schedules in one tick.
THEOREM ServiceKeepsPlans == Spec => PlanKept
<1>1. Spec => []Inv
  BY Invariance
<1> QED
  BY <1>1, PlanBegins, StepImplements, PTL DEF Spec, PlanKept, Plan!Spec
=============================================================================
