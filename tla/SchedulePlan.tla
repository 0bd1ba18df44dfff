---------------------------- MODULE SchedulePlan ----------------------------
(***************************************************************************)
(* What a schedule promises its owner, whoever keeps it: it fires only     *)
(* when its slot has come, a firing uses up the slot and one of the        *)
(* firings that are left, and a firing starts exactly one new task.  Only  *)
(* a crash between starting the task and recording it may fire the slot    *)
(* again.  NodeService is shown to implement this.                         *)
(***************************************************************************)
EXTENDS Integers

CONSTANTS Schedules, Tasks

VARIABLES now,   \* minutes passed
          next,  \* [Schedules -> minute of the next slot, or NoTime]
          left,  \* [Schedules -> firings left, or Unlimited]
          sent   \* [Schedules -> the tasks its firings have started]

planVars == <<now, next, left, sent>>

NoTime == -1
Unlimited == -1

Due(s) == next[s] # NoTime /\ next[s] <= now

Unsent(t) == \A s \in Schedules : t \notin sent[s]

Init == /\ now = 0
        /\ next = [s \in Schedules |-> NoTime]
        /\ left = [s \in Schedules |-> 0]
        /\ sent = [s \in Schedules |-> {}]

Pass == /\ now' = now + 1
        /\ UNCHANGED <<next, left, sent>>

Keeps(s) == /\ next'[s] = next[s]
            /\ left'[s] = left[s]
            /\ sent'[s] = sent[s]

Types == /\ next' \in [Schedules -> Nat \cup {NoTime}]
         /\ left' \in [Schedules -> Nat \cup {Unlimited}]
         /\ sent' \in [Schedules -> SUBSET Tasks]

\* Its owner makes, changes or removes the plan of s; nothing is fired.
Replan(s) == /\ sent' = sent
             /\ \A r \in Schedules \ {s} : Keeps(r)
             /\ Types
             /\ UNCHANGED now

\* One firing of s by task t: the plan moves on to a later slot, or ends.
Uses(s, t) ==
  /\ Due(s)
  /\ left[s] # 0
  /\ Unsent(t)
  /\ sent'[s] = sent[s] \cup {t}
  /\ left'[s] = IF left[s] = Unlimited THEN Unlimited ELSE left[s] - 1
  /\ IF left'[s] = 0 THEN next'[s] = NoTime ELSE next'[s] > now

\* The schedules of F fire, each with a task of its own.
Fire(F) ==
  /\ \E by \in [F -> Tasks] :
       /\ \A s, r \in F : s # r => by[s] # by[r]
       /\ \A s \in F : Uses(s, by[s])
  /\ \A s \in Schedules \ F : Keeps(s)
  /\ Types
  /\ UNCHANGED now

\* The keeper dies after it started the task and before it recorded that.
FireTorn(s) ==
  /\ Due(s)
  /\ \E t \in Tasks : Unsent(t) /\ sent' = [sent EXCEPT ![s] = @ \cup {t}]
  /\ UNCHANGED <<now, next, left>>

Next == \/ Pass
        \/ \E s \in Schedules : Replan(s) \/ FireTorn(s)
        \/ \E F \in SUBSET Schedules : Fire(F)

Spec == Init /\ [][Next]_planVars
=============================================================================
