---------------------------- MODULE ScheduleStore ---------------------------
(***************************************************************************)
(* The rows of the node service's schedules table and what the schedule    *)
(* store and the schedule routes do to one row.  Time is counted in        *)
(* minutes, the resolution of next_send_at.                                *)
(***************************************************************************)
EXTENDS Integers

CONSTANT FixedGap   \* minutes between two slots of a fixed schedule

ASSUME FixedGapAssumption == FixedGap \in Nat \ {0}

NoTime == -1        \* the empty string of send_at and next_send_at
Minutes == Nat \cup {NoTime}

\* What a request may ask of a schedule besides its time and its switch.
PlanFields == [kind : {"one_time", "fixed"}, continuous : BOOLEAN,
               interval : Nat \ {0}, repeat : Nat]

Row == [row : {"unused", "live", "deleted"}, enabled : BOOLEAN, sendAt : Minutes,
        plan : PlanFields, remaining : Nat, next : Minutes]

NoRow(row) == [row |-> row, enabled |-> FALSE, sendAt |-> NoTime,
               plan |-> [kind |-> "one_time", continuous |-> FALSE, interval |-> 1,
                         repeat |-> 1],
               remaining |-> 0, next |-> NoTime]
Unused == NoRow("unused")
Deleted == NoRow("deleted")

IsFixed(plan) == plan.kind = "fixed"

\* normalizeScheduleInput: a fixed schedule repeats for ever, and one that is
\* not continuous is sent once.
Normalized(plan) ==
  [kind |-> plan.kind, interval |-> plan.interval,
   continuous |-> IsFixed(plan) \/ plan.continuous,
   repeat |-> IF IsFixed(plan) THEN 0
              ELSE IF ~plan.continuous THEN 1
              ELSE IF plan.repeat = 0 THEN 2 ELSE plan.repeat]

\* The next slot strictly after the minute t.  Which minutes are slots is
\* module FixedCalendar's concern; here they are FixedGap apart.
NextFixed(t) == t + FixedGap - (t % FixedGap)

InitialNext(plan, sendAt, t) == IF IsFixed(plan) THEN NextFixed(t) ELSE sendAt

\* Why the routes refuse to switch a schedule on.
Activatable(enabled, plan, sendAt, t) ==
  enabled => IsFixed(plan) \/ (sendAt # NoTime /\ sendAt > t)

Created(enabled, plan, sendAt, t) ==
  LET n == Normalized(plan)
  IN [row |-> "live", enabled |-> enabled, sendAt |-> sendAt, plan |-> n,
      remaining |-> IF enabled /\ ~IsFixed(n) THEN n.repeat ELSE 0,
      next |-> IF enabled THEN InitialNext(n, sendAt, t) ELSE NoTime]

\* update: reset says that the patch names one of the fields merged here.  Any
\* of them starts the plan over, from sendAt even when that has passed.
Updated(cur, reset, enabled, plan, sendAt, t) ==
  LET n == Normalized(plan)
      remaining == IF reset THEN n.repeat ELSE cur.remaining
      next == IF reset THEN InitialNext(n, sendAt, t)
              ELSE IF cur.next # NoTime THEN cur.next ELSE sendAt
  IN [row |-> "live", enabled |-> enabled, sendAt |-> sendAt, plan |-> n,
      remaining |-> IF enabled /\ ~IsFixed(n) THEN remaining ELSE 0,
      next |-> IF enabled THEN next ELSE NoTime]

DueAt(row, t) == row.row = "live" /\ row.enabled /\ row.next # NoTime /\ row.next <= t

Moved(cur, enabled, remaining, next) ==
  [row |-> cur.row, enabled |-> enabled, sendAt |-> cur.sendAt, plan |-> cur.plan,
   remaining |-> remaining, next |-> next]

\* Mutant: the next time is reckoned from the slot instead of the sending.
MarkedFromSlot(cur, t) ==
  LET left == IF cur.remaining > 0 THEN cur.remaining - 1 ELSE 0
  IN IF IsFixed(cur.plan) THEN Moved(cur, TRUE, 0, NextFixed(cur.next))
     ELSE IF cur.plan.continuous /\ left > 0
     THEN Moved(cur, TRUE, left, cur.next + cur.plan.interval)
     ELSE Moved(cur, FALSE, 0, NoTime)

\* markSent: the fixed schedule moves to its next slot, the one-time schedule
\* is switched off, the continuous one is counted down and switched off at 0.
MarkedSent(cur, t) ==
  LET left == IF cur.remaining > 0 THEN cur.remaining - 1 ELSE 0
  IN IF IsFixed(cur.plan) THEN Moved(cur, TRUE, 0, NextFixed(t))
     ELSE IF cur.plan.continuous /\ left > 0
     THEN Moved(cur, TRUE, left, t + cur.plan.interval)
     ELSE Moved(cur, FALSE, 0, NoTime)
=============================================================================
