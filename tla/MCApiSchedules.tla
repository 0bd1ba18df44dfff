---------------------------- MODULE MCApiSchedules --------------------------
EXTENDS ApiSchedules

Plan(kind, half, days, sendAt, interval, repeat) ==
  [kind |-> kind, enabled |-> TRUE, half |-> half, days |-> days, sendAt |-> sendAt,
   interval |-> interval, repeat |-> repeat]

\* Every day in the second half, twice with a pause of a day, and once.
MCPlans == {Plan("fixed", 1, {0, 1}, 0, 1, 1), Plan("repeat", 0, {}, 1, 2, 2),
            Plan("once", 0, {}, 3, 1, 1)}
=============================================================================
